---- MODULE Spec2Model ----
(***************************************************************************)
(* Vectra MCP server: request router (server.ts), argument validators      *)
(* (validators.ts), tool registry (tools.ts) and the single-call / batch   *)
(* handlers (handlers.ts).                                                 *)
(*                                                                         *)
(* JavaScript values are tagged records.  A string is a sequence of        *)
(* tokens (a token is one character, or a literal piece of a template      *)
(* string that is never split), so concatenation is \o and a regular       *)
(* expression is a scan over tokens.                                       *)
(***************************************************************************)
EXTENDS Integers, Sequences, FiniteSets, TLC

\* ------------------------------------------------------------------------
\* Bounds of the model
\* ------------------------------------------------------------------------
\* largest number of items / sources in one batch call
MaxItems == 2

\* ------------------------------------------------------------------------
\* JavaScript values
\* ------------------------------------------------------------------------
Undef == [t |-> "undefined"]
Null == [t |-> "null"]
Str(s) == [t |-> "string", s |-> s]
Num(n) == [t |-> "number", n |-> n]
Bool(b) == [t |-> "boolean", b |-> b]
Arr(e) == [t |-> "array", e |-> e]
Obj(f) == [t |-> "object", f |-> f]
EmptyObj == Obj([k \in {} |-> Undef])

\* the typeof operator
TypeOf(v) == IF v.t \in {"null", "array", "object"} THEN "object" ELSE v.t

\* Array.isArray
IsArray(v) == v.t = "array"

\* property read v.k on a non-nullish value (undefined when absent)
Get(v, k) == IF v.t = "object" /\ k \in DOMAIN v.f THEN v.f[k] ELSE Undef

\* optional chaining v?.k
GetOpt(v, k) == IF v.t \in {"undefined", "null"} THEN Undef ELSE Get(v, k)

\* Object.keys(v).length
NumKeys(v) ==
  CASE v.t = "object" -> Cardinality({k \in DOMAIN v.f : v.f[k] # Undef})
    [] v.t = "array" -> Len(v.e)
    [] v.t = "string" -> Len(v.s)
    [] OTHER -> 0

\* ToBoolean
Truthy(v) ==
  CASE v.t \in {"undefined", "null"} -> FALSE
    [] v.t = "string" -> Len(v.s) > 0
    [] v.t = "number" -> v.n # 0
    [] v.t = "boolean" -> v.b
    [] OTHER -> TRUE

\* white-space characters removed by String.prototype.trim
Whitespace == {" ", "\t", "\n"}

\* source.trim() === ''
TrimIsEmpty(s) == \A i \in 1..Len(s) : s[i] \in Whitespace

\* ------------------------------------------------------------------------
\* validators.ts
\* ------------------------------------------------------------------------
IsObjectNotNull(args) == TypeOf(args) = "object" /\ args # Null

isValidCreateCollectionArgs(args) ==
  /\ IsObjectNotNull(args)
  /\ TypeOf(Get(args, "name")) = "string"
  /\ (Get(args, "description") = Undef \/ TypeOf(Get(args, "description")) = "string")

isValidListCollectionsArgs(args) ==
  /\ IsObjectNotNull(args)
  /\ NumKeys(args) = 0

isValidAddFileToCollectionArgs(args) ==
  /\ IsObjectNotNull(args)
  /\ TypeOf(Get(args, "collectionId")) = "string"
  /\ TypeOf(Get(args, "fileId")) = "string"

isValidListFilesInCollectionArgs(args) ==
  /\ IsObjectNotNull(args)
  /\ TypeOf(Get(args, "collectionId")) = "string"

SearchModes == {<<"vector">>, <<"keyword">>, <<"hybrid">>}

\* one element of includeMetadataFilters passes the loop body
IncludeFilterOk(filter) ==
  ~ ( \/ TypeOf(filter) # "object"
      \/ filter = Null
      \/ TypeOf(Get(filter, "field")) # "string"
      \/ TypeOf(Get(filter, "value")) # "string" )

\* the exclude loop body with the include loop's test: a string value required
ExcludeFilterOkValueOnly(filter) ==
  ~ ( \/ TypeOf(filter) # "object"
      \/ filter = Null
      \/ TypeOf(Get(filter, "field")) # "string"
      \/ TypeOf(Get(filter, "value")) # "string" )

\* one element of excludeMetadataFilters passes the loop body
ExcludeFilterOk(filter) ==
  /\ ~ (TypeOf(filter) # "object" \/ filter = Null \/ TypeOf(Get(filter, "field")) # "string")
  /\ ~ (Get(filter, "value") = Undef /\ Get(filter, "pattern") = Undef)
  /\ ~ (Get(filter, "value") # Undef /\ TypeOf(Get(filter, "value")) # "string")
  /\ ~ (Get(filter, "pattern") # Undef /\ TypeOf(Get(filter, "pattern")) # "string")

isValidQueryCollectionArgs(args) ==
  /\ ~ (TypeOf(args) # "object" \/ args = Null)
  /\ ~ (TypeOf(Get(args, "collectionId")) # "string" \/ TypeOf(Get(args, "queryText")) # "string")
  /\ ~ (Get(args, "limit") # Undef /\ TypeOf(Get(args, "limit")) # "number")
  /\ ~ ( /\ Get(args, "searchMode") # Undef
         /\ ~ (Get(args, "searchMode").t = "string" /\ Get(args, "searchMode").s \in SearchModes) )
  /\ ~ (Get(args, "maxDistance") # Undef /\ TypeOf(Get(args, "maxDistance")) # "number")
  /\ ( Get(args, "includeMetadataFilters") # Undef =>
         /\ IsArray(Get(args, "includeMetadataFilters"))
         /\ \A i \in 1..Len(Get(args, "includeMetadataFilters").e) :
               IncludeFilterOk(Get(args, "includeMetadataFilters").e[i]) )
  /\ ( Get(args, "excludeMetadataFilters") # Undef =>
         /\ IsArray(Get(args, "excludeMetadataFilters"))
         /\ \A i \in 1..Len(Get(args, "excludeMetadataFilters").e) :
               ExcludeFilterOk(Get(args, "excludeMetadataFilters").e[i]) )

isValidDeleteFileArgs(args) ==
  /\ IsObjectNotNull(args)
  /\ TypeOf(Get(args, "fileId")) = "string"

\* the metadata check shared by embed_texts items and embed_files
MetadataOk(metadata) ==
  metadata # Undef =>
    /\ ~ (TypeOf(metadata) # "object" \/ metadata = Null \/ IsArray(metadata))
    /\ \A key \in DOMAIN metadata.f :
          metadata.f[key] # Undef => TypeOf(metadata.f[key]) = "string"

EmbedTextItemOk(item) ==
  /\ ~ (TypeOf(item) # "object" \/ item = Null \/ TypeOf(Get(item, "text")) # "string")
  /\ MetadataOk(Get(item, "metadata"))

isValidEmbedTextsArgs(args) ==
  /\ ~ (TypeOf(args) # "object" \/ args = Null)
  /\ ~ (Get(args, "collectionId") # Undef /\ TypeOf(Get(args, "collectionId")) # "string")
  /\ IsArray(Get(args, "items"))
  /\ \A i \in 1..Len(Get(args, "items").e) : EmbedTextItemOk(Get(args, "items").e[i])

isValidEmbedFilesArgs(args) ==
  /\ ~ (TypeOf(args) # "object" \/ args = Null)
  /\ ~ (Get(args, "collectionId") # Undef /\ TypeOf(Get(args, "collectionId")) # "string")
  /\ ~ (~ IsArray(Get(args, "sources")) \/ Len(Get(args, "sources").e) = 0)
  /\ \A i \in 1..Len(Get(args, "sources").e) :
        ~ ( \/ TypeOf(Get(args, "sources").e[i]) # "string"
            \/ TrimIsEmpty(Get(args, "sources").e[i].s) )
  /\ MetadataOk(Get(args, "metadata"))

\* ------------------------------------------------------------------------
\* Strings, template literals, JSON
\* ------------------------------------------------------------------------
\* length in characters of one token; LongToken stands for a text of 600
\* characters
LongToken == "<600 characters>"

TokLen(tok) == IF tok = LongToken THEN 600 ELSE Len(tok)

RECURSIVE TextLen(_)
TextLen(s) == IF s = <<>> THEN 0 ELSE TokLen(Head(s)) + TextLen(Tail(s))

\* list.join(sep) for a list of texts
RECURSIVE Join(_, _)
Join(list, sep) ==
  IF list = <<>> THEN <<>>
  ELSE IF Len(list) = 1 THEN list[1]
  ELSE list[1] \o sep \o Join(Tail(list), sep)

\* text.includes(sub)
Includes(text, sub) ==
  \E p \in 0..(Len(text) - Len(sub)) : \A j \in 1..Len(sub) : text[p + j] = sub[j]

\* the order in which the keys of an object are enumerated
KeyOrder ==
  << "status", "message", "error", "id", "name", "description", "data", "collections",
     "files", "filename", "source_url", "file_path", "title", "tags", "text", "metadata",
     "collectionId", "fileId", "queryText", "limit", "searchMode", "maxDistance",
     "includeMetadataFilters", "excludeMetadataFilters", "enableGraphSearch", "graphDepth",
     "graphTopN", "graphRelationshipTypes", "graphTraversalDirection", "items", "sources",
     "field", "value", "pattern", "vector_id", "distance", "score", "chunk_text",
     "synthesized_answer", "excerptKeywords", "questionsThisExcerptCanAnswer",
     "arangodb_node", "arangodb_neighbors", "file", "collection_id" >>

\* Object.keys(v) of an object, as a sequence
OwnKeys(v) == SelectSeq(KeyOrder, LAMBDA k : k \in DOMAIN v.f /\ v.f[k] # Undef)

\* "${v}" : the string conversion of a template literal
RECURSIVE ToText(_)
ToText(v) ==
  CASE v.t = "string" -> v.s
    [] v.t = "number" -> <<ToString(v.n)>>
    [] v.t = "boolean" -> IF v.b THEN <<"true">> ELSE <<"false">>
    [] v.t = "undefined" -> <<"undefined">>
    [] v.t = "null" -> <<"null">>
    [] v.t = "array" ->
         Join([i \in 1..Len(v.e) |->
                 IF v.e[i].t \in {"undefined", "null"} THEN <<>> ELSE ToText(v.e[i])], <<",">>)
    [] OTHER -> <<"[object Object]">>

\* JSON.stringify(v) for a value other than undefined
RECURSIVE JsonStringify(_)
JsonStringify(v) ==
  CASE v.t = "string" -> <<"\"">> \o v.s \o <<"\"">>
    [] v.t = "number" -> <<ToString(v.n)>>
    [] v.t = "boolean" -> IF v.b THEN <<"true">> ELSE <<"false">>
    [] v.t \in {"null", "undefined"} -> <<"null">>
    [] v.t = "array" ->
         <<"[">> \o Join([i \in 1..Len(v.e) |-> JsonStringify(v.e[i])], <<",">>) \o <<"]">>
    [] OTHER ->
         LET ks == OwnKeys(v)
         IN <<"{">>
            \o Join([i \in 1..Len(ks) |->
                       <<"\"", ks[i], "\":">> \o JsonStringify(v.f[ks[i]])], <<",">>)
            \o <<"}">>

\* ------------------------------------------------------------------------
\* Errors and promises
\* ------------------------------------------------------------------------
InvalidParams == "-32602"

MethodNotFound == "-32601"

InternalError == "-32603"

\* new McpError(code, message): the message of the error object carries the
\* code as a prefix
McpError(code, message) ==
  [cls |-> "McpError", message |-> <<"MCP error ", code, ": ">> \o message]

NoError == [cls |-> "none", message |-> <<>>]

NoValue == [content |-> <<>>, isError |-> FALSE]

Pending == [state |-> "pending", value |-> NoValue, error |-> NoError]

Fulfilled(v) == [state |-> "fulfilled", value |-> v, error |-> NoError]

Rejected(e) == [state |-> "rejected", value |-> NoValue, error |-> e]

\* { content: [{ type: 'text', text }] } ; isError = FALSE stands for the key
\* being absent
TextContent(text) == [content |-> <<[type |-> "text", text |-> text]>>, isError |-> FALSE]

\* ------------------------------------------------------------------------
\* handlers.ts: formatResponse
\* ------------------------------------------------------------------------
Nullish(v) == v.t \in {"undefined", "null"}

\* a || b
OrElse(a, b) == IF Truthy(a) THEN a ELSE b

Threw == [threw |-> TRUE, summary |-> Undef]

Summary(v) == [threw |-> FALSE, summary |-> v]

\* the code fence of a Markdown block (three backquotes)
Fence == "<fence>"

\* n.toFixed(4)
ToFixed4(n) == <<ToString(n), ".0000">>

\* "- ${col.name} (ID: ${col.id})"
CollectionLine(col) ==
  <<"- ">> \o ToText(Get(col, "name")) \o <<" (ID: ">> \o ToText(Get(col, "id")) \o <<")">>

\* "- ${file.filename} (ID: ${file.id})"
FileLine(file) ==
  <<"- ">> \o ToText(Get(file, "filename")) \o <<" (ID: ">> \o ToText(Get(file, "id")) \o <<")">>

CollectionsSummary(list) ==
  IF Len(list.e) > 0
  THEN IF \E i \in 1..Len(list.e) : Nullish(list.e[i])
       THEN Threw
       ELSE Summary(Str(<<"Collections:\n">>
              \o Join([i \in 1..Len(list.e) |-> CollectionLine(list.e[i])], <<"\n">>)))
  ELSE Summary(Str(<<"No collections found.">>))

\* res.distance?.toFixed(4) throws when the value has no toFixed method
FixedThrows(v) == ~ Nullish(v) /\ v.t # "number"

FixedOrNA(v) == IF Nullish(v) THEN <<"N/A">> ELSE ToFixed4(v.n)

ResultThrows(res) ==
  \/ Nullish(res)
  \/ FixedThrows(Get(res, "distance"))
  \/ FixedThrows(Get(res, "score"))

\* the text of one query result
ResultBlock(res, index) ==
  LET metadata == OrElse(Get(res, "metadata"), EmptyObj)
      keywords == Get(metadata, "excerptKeywords")
      questions == Get(metadata, "questionsThisExcerptCanAnswer")
      node == Get(metadata, "arangodb_node")
      neighbors == Get(metadata, "arangodb_neighbors")
      outputParts ==
        << <<"### Result ", ToString(index)>>,
           <<"**Vector ID:** ">> \o ToText(OrElse(Get(res, "vector_id"), Str(<<"N/A">>))),
           <<"**Distance:** ">> \o FixedOrNA(Get(res, "distance")),
           <<"**Score:** ">> \o FixedOrNA(Get(res, "score")),
           <<"**Text:**\n", Fence, "\n">>
             \o ToText(OrElse(Get(metadata, "chunk_text"), Str(<<"No text found">>)))
             \o <<"\n", Fence>> >>
        \o (IF Truthy(keywords) THEN << <<"**Keywords:**\n">> \o ToText(keywords) >> ELSE <<>>)
        \o (IF Truthy(questions)
            THEN << <<"**Questions Answered:**\n">> \o ToText(questions) >> ELSE <<>>)
        \o (IF Truthy(node)
            THEN << <<"**ArangoDB Node:**\n", Fence, "json\n">> \o JsonStringify(node) \o <<"\n", Fence>> >>
            ELSE <<>>)
        \o (IF Truthy(neighbors) /\ IsArray(neighbors) /\ Len(neighbors.e) > 0
            THEN << <<"**ArangoDB Neighbors (", ToString(Len(neighbors.e)), "):**\n", Fence, "json\n">>
                      \o JsonStringify(neighbors) \o <<"\n", Fence>> >>
            ELSE <<>>)
  IN Join(outputParts, <<"\n\n">>)

QuerySummary(results) ==
  LET first == IF Len(results.e) > 0 THEN results.e[1] ELSE Undef
      synthesizedAnswer == GetOpt(first, "synthesized_answer")
  IN IF Len(results.e) > 0
     THEN IF \E i \in 1..Len(results.e) : ResultThrows(results.e[i])
          THEN Threw
          ELSE Summary(Str(
                 (IF Truthy(synthesizedAnswer)
                  THEN <<"**Synthesized Answer:**\n">> \o ToText(synthesizedAnswer)
                         \o <<"\n\n---\n\n**Supporting Results:**\n">>
                  ELSE <<"Query Results:\n">>)
                 \o Join([i \in 1..Len(results.e) |-> ResultBlock(results.e[i], i)],
                         <<"\n\n---\n\n">>)))
     ELSE Summary(Str(<<"No relevant results found for the query in this collection.">>))

DefaultSummary(toolName) == Str(<<"Tool '", toolName, "' executed successfully.">>)

\* the switch without its delete_file case: the default summary stays
DeleteFileSummaryCaseMissing(toolName, responseData) == Summary(DefaultSummary(toolName))

\* case 'delete_file'
DeleteFileSummary(toolName, responseData) == Summary(Str(<<"File deleted successfully.">>))

\* the switch of formatResponse: the summary, or the fact that it threw
FormatSwitch(toolName, responseData) ==
  LET data == GetOpt(responseData, "data")
      default == Summary(DefaultSummary(toolName))
  IN CASE toolName = "list_collections" ->
            IF IsArray(responseData) THEN CollectionsSummary(responseData)
            ELSE IF Truthy(GetOpt(data, "collections")) /\ IsArray(GetOpt(data, "collections"))
                 THEN CollectionsSummary(GetOpt(data, "collections"))
                 ELSE default
       [] toolName = "create_collection" ->
            IF Truthy(GetOpt(responseData, "id")) /\ Truthy(GetOpt(responseData, "name"))
            THEN Summary(Str(<<"Created collection \"">> \o ToText(Get(responseData, "name"))
                               \o <<"\" (ID: ">> \o ToText(Get(responseData, "id")) \o <<").">>))
            ELSE default
       [] toolName = "add_file_to_collection" ->
            Summary(OrElse(GetOpt(responseData, "message"),
                           Str(<<"File successfully added to collection.">>)))
       [] toolName = "list_files_in_collection" ->
            IF Truthy(GetOpt(data, "files")) /\ IsArray(GetOpt(data, "files"))
            THEN IF Len(GetOpt(data, "files").e) > 0
                 THEN IF \E i \in 1..Len(GetOpt(data, "files").e) : Nullish(GetOpt(data, "files").e[i])
                      THEN Threw
                      ELSE Summary(Str(<<"Files in collection:\n">>
                             \o Join([i \in 1..Len(GetOpt(data, "files").e) |->
                                        FileLine(GetOpt(data, "files").e[i])], <<"\n">>)))
                 ELSE Summary(Str(<<"No files found in this collection.">>))
            ELSE default
       [] toolName = "query_collection" ->
            IF IsArray(responseData) THEN QuerySummary(responseData) ELSE default
       [] toolName = "delete_file" -> DeleteFileSummary(toolName, responseData)
       [] toolName = "get_arangodb_node" ->
            IF Truthy(data)
            THEN Summary(Str(<<"ArangoDB Node Data:\n", Fence, "json\n">> \o JsonStringify(data)
                               \o <<"\n", Fence>>))
            ELSE Summary(Str(<<"Could not retrieve data for the specified ArangoDB node. Response: ">>
                               \o (IF responseData = Undef THEN <<"undefined">>
                                   ELSE JsonStringify(responseData))))
       [] OTHER -> default

formatResponse(toolName, responseData) ==
  LET r == FormatSwitch(toolName, responseData)
  IN IF r.threw
     THEN TextContent(Str(<<"Tool '", toolName,
                            "' executed, but response formatting failed. Raw data: ">>
                          \o (IF responseData = Undef THEN <<"undefined">>
                              ELSE JsonStringify(responseData))))
     ELSE TextContent(r.summary)

\* ------------------------------------------------------------------------
\* The HTTP client (server.ts: axios.create)
\* ------------------------------------------------------------------------
\* What the backend does with one request: a response with a status and a
\* body, or no response at all (msg is then the transport's error message).
HttpResponse(status, statusText, data) ==
  [kind |-> "response", status |-> status, statusText |-> statusText, data |-> data,
   msg |-> <<>>]

NoResponse(msg) ==
  [kind |-> "noresponse", status |-> 0, statusText |-> <<>>, data |-> Undef, msg |-> msg]

validateStatus(status) == status >= 200 /\ status < 500

\* config.ts: the backend's base URL, from the environment or the default
VECTRA_API_URL(env) == OrElse(env, Str(<<"http://localhost:3000/api">>))

\* the API key of the environment; the constructor exits when it is missing
VECTRA_API_KEY == Str(<<"key-1">>)

\* the values of the VECTRA_API_URL environment variable considered
EnvApiUrls == {Undef, Str(<<"http://vectra.example/api">>)}

\* the process environment: the two variables the server reads
Env(url, key) == [VECTRA_API_URL |-> url, VECTRA_API_KEY |-> key]

\* the constructor's test of the credential
ApiKeyMissingNever(key) == FALSE

ApiKeyMissing(key) == ~ Truthy(key)

\* axios.create: the configuration of the client every request goes through
AxiosCreate(baseURL, apiKey) ==
  [baseURL |-> baseURL,
   headers |-> [ContentType |-> Str(<<"application/json">>), XApiKey |-> apiKey]]

\* the awaited request resolves with the response (otherwise it throws an
\* AxiosError)
AxiosResolves(out) == out.kind = "response" /\ validateStatus(out.status)

\* the AxiosError thrown when the request does not resolve; it carries the
\* response when there was one
AxiosErrorOf(out) ==
  [cls |-> "AxiosError",
   message |-> IF out.kind = "response"
               THEN <<"Request failed with status code ", ToString(out.status)>>
               ELSE out.msg]

AxiosErrorResponseData(out) == IF out.kind = "response" THEN out.data ELSE Undef

\* ------------------------------------------------------------------------
\* handlers.ts: handleApiCall
\* ------------------------------------------------------------------------
DetailLimit == 500

\* the optional key of an object literal: ...(v !== undefined && { k: v })
DropUndef(f) == [k \in {x \in DOMAIN f : f[x] # Undef} |-> f[k]]

\* the payload sent for a tool call
ApiPayload(toolName, data) ==
  IF toolName = "query_collection" /\ Truthy(data)
  THEN Obj(DropUndef(
         [queryText |-> Get(data, "queryText"),
          limit |-> Get(data, "limit"),
          searchMode |-> Get(data, "searchMode"),
          maxDistance |-> Get(data, "maxDistance"),
          includeMetadataFilters |-> Get(data, "includeMetadataFilters"),
          excludeMetadataFilters |-> Get(data, "excludeMetadataFilters"),
          enableGraphSearch |-> Get(data, "enableGraphSearch"),
          graphDepth |-> Get(data, "graphDepth"),
          graphRelationshipTypes |-> Get(data, "graphRelationshipTypes"),
          graphTraversalDirection |-> Get(data, "graphTraversalDirection")]))
  ELSE data

\* " | Details: <json>" when the body serializes to fewer than 500 characters
DetailsOf(body) ==
  IF body = Undef THEN <<>>
  ELSE IF TextLen(JsonStringify(body)) < DetailLimit
       THEN <<" | Details: ">> \o JsonStringify(body)
       ELSE <<>>

\* the message of the error thrown for a response with status >= 400
StatusErrorMessage(out) ==
  LET errorData == out.data
      base == <<"API Error: ", ToString(out.status), " ">> \o out.statusText
      detailed == IF Truthy(GetOpt(errorData, "message"))
                  THEN base \o <<" - ">> \o ToText(GetOpt(errorData, "message"))
                  ELSE base
  IN detailed \o DetailsOf(errorData)

\* the body of the try block once the request has settled: what it returns
\* or throws
ApiTry(out, method, toolName) ==
  IF ~ AxiosResolves(out) THEN Rejected(AxiosErrorOf(out))
  ELSE IF out.status >= 400
       THEN Rejected(McpError(InternalError, StatusErrorMessage(out)))
       ELSE IF method = "delete" /\ out.status = 204
            THEN Fulfilled(formatResponse(toolName, Null))
            ELSE Fulfilled(formatResponse(toolName, out.data))

\* the message built by the catch block for an error that is no McpError
TransportErrorMessage(error, responseData, toolName) ==
  LET withApiMessage ==
        IF Truthy(responseData) /\ Truthy(GetOpt(responseData, "message"))
        THEN error.message \o <<": ">> \o ToText(GetOpt(responseData, "message"))
        ELSE error.message
      errorMessage ==
        IF error.cls = "AxiosError" THEN withApiMessage
        ELSE IF error.cls = "Error" THEN error.message
        ELSE <<"Failed to communicate with Vectra API during ", toolName>>
      errorDetails ==
        IF error.cls = "AxiosError" /\ Truthy(responseData) THEN DetailsOf(responseData)
        ELSE <<>>
  IN errorMessage \o errorDetails

\* the catch block
ApiCatch(error, out, toolName) ==
  IF error.cls = "McpError" THEN error
  ELSE McpError(InternalError,
                TransportErrorMessage(error, AxiosErrorResponseData(out), toolName))

\* the promise of handleApiCall once its request has settled
handleApiCall(out, method, toolName) ==
  LET r == ApiTry(out, method, toolName)
  IN IF r.state = "rejected" THEN Rejected(ApiCatch(r.error, out, toolName)) ELSE r

\* ------------------------------------------------------------------------
\* handlers.ts: handleEmbedFileContent
\* ------------------------------------------------------------------------
StartsWithHttp(s) == Len(s) > 0 /\ s[1] \in {"http://", "https://"}

IncludesSlash(s) == \E i \in 1..Len(s) : s[i] = "/"

\* finalMetadata: a copy of the metadata, with the source identifier as
\* fallback source_url / file_path
FinalMetadata(metadata, sourceIdentifier) ==
  LET copy == IF metadata.t = "object" THEN metadata.f ELSE [k \in {} |-> Undef]
      has(k) == k \in DOMAIN copy /\ Truthy(copy[k])
      extra == IF has("source_url") \/ has("file_path") THEN {}
               ELSE IF StartsWithHttp(sourceIdentifier) THEN {"source_url"}
               ELSE IF IncludesSlash(sourceIdentifier) THEN {"file_path"}
               ELSE {}
  IN Obj([k \in DOMAIN copy \cup extra |->
            IF k \in extra THEN Str(sourceIdentifier) ELSE copy[k]])

\* the multipart form posted to /files/upload
UploadForm(scrapedContent, sourceIdentifier, collectionId, metadata) ==
  Obj(DropUndef(
    [file |-> scrapedContent,
     collection_id |-> IF Truthy(collectionId) THEN collectionId ELSE Undef,
     metadata |-> FinalMetadata(metadata, sourceIdentifier)]))

\* the message of the error thrown for an upload response with status >= 400
UploadStatusErrorMessage(out) ==
  IF Truthy(GetOpt(out.data, "message"))
  THEN ToText(GetOpt(out.data, "message"))
  ELSE <<"API Error: ", ToString(out.status), " ">> \o out.statusText

\* the summary of a successful upload
UploadSummary(out, sourceIdentifier, metadata) ==
  LET finalMetadata == FinalMetadata(metadata, sourceIdentifier)
      sourceDesc == OrElse(Get(finalMetadata, "file_path"),
                           OrElse(Get(finalMetadata, "source_url"), Str(sourceIdentifier)))
      id == GetOpt(GetOpt(out.data, "data"), "id")
  IN Str(<<"Successfully uploaded content from \"">> \o ToText(sourceDesc)
           \o <<"\". Embedding is pending.">>
           \o (IF Truthy(id) THEN <<" ", "File ID: ">> \o ToText(id) ELSE <<>>)
           \o (IF NumKeys(finalMetadata) > 0
               THEN <<"\nMetadata: ">> \o JsonStringify(finalMetadata) ELSE <<>>))

\* the message built by the catch block of the upload for an AxiosError
UploadTransportMessage(error, responseData) ==
  IF Truthy(GetOpt(responseData, "message"))
  THEN error.message \o <<": ">> \o ToText(GetOpt(responseData, "message"))
  ELSE error.message

\* the promise of handleEmbedFileContent once its request has settled
handleEmbedFileContent(out, sourceIdentifier, metadata) ==
  IF ~ AxiosResolves(out)
  THEN Rejected(McpError(InternalError,
                  UploadTransportMessage(AxiosErrorOf(out), AxiosErrorResponseData(out))))
  ELSE IF out.status >= 400
       THEN Rejected(McpError(InternalError, UploadStatusErrorMessage(out)))
       ELSE Fulfilled(TextContent(UploadSummary(out, sourceIdentifier, metadata)))

\* ------------------------------------------------------------------------
\* handlers.ts: handleEmbedTexts / handleEmbedFiles, the parts of the loop
\* ------------------------------------------------------------------------
Digits == {"0", "1", "2", "3", "4", "5", "6", "7", "8", "9"}

\* the character class [a-f0-9-]
HexChars == {"a", "b", "c", "d", "e", "f", "-"} \cup Digits

RECURSIVE HexRun(_, _)
HexRun(s, i) ==
  IF i <= Len(s) /\ s[i] \in HexChars THEN <<s[i]>> \o HexRun(s, i + 1) ELSE <<>>

\* text.match(/File ID: ([a-f0-9-]+)/): the positions where the pattern
\* matches
FileIdMatches(s) == {p \in 1..(Len(s) - 1) : s[p] = "File ID: " /\ s[p + 1] \in HexChars}

\* the fileId extracted from the result of handleEmbedFileContent
ExtractFileId(result) ==
  LET text == IF Len(result.content) > 0 THEN result.content[1].text ELSE Undef
  IN IF Truthy(text) /\ text.t = "string" /\ FileIdMatches(text.s) # {}
     THEN LET p == CHOOSE p \in FileIdMatches(text.s) :
                     \A q \in FileIdMatches(text.s) : p <= q
          IN Str(HexRun(text.s, p + 1))
     ELSE Undef

\* the fallback label numbered from zero
TextSourceDescZeroBased(item, results) ==
  OrElse(GetOpt(Get(item, "metadata"), "source_url"),
         OrElse(GetOpt(Get(item, "metadata"), "file_path"),
                Str(<<"text item ", ToString(Len(results))>>)))

\* sourceDesc of an embed_texts item, given the results recorded so far
TextSourceDesc(item, results) ==
  OrElse(GetOpt(Get(item, "metadata"), "source_url"),
         OrElse(GetOpt(Get(item, "metadata"), "file_path"),
                Str(<<"text item ", ToString(Len(results) + 1)>>)))

\* itemMetadata in which a file_path of the base metadata wins over the source
ItemMetadataKeepsBasePath(baseMetadata, source) ==
  LET base == IF baseMetadata.t = "object" THEN baseMetadata.f ELSE [k \in {} |-> Undef]
  IN Obj([k \in DOMAIN base \cup {"file_path"} |->
            IF k \in DOMAIN base THEN base[k] ELSE source])

\* itemMetadata of an embed_files source
ItemMetadata(baseMetadata, source) ==
  LET base == IF baseMetadata.t = "object" THEN baseMetadata.f ELSE [k \in {} |-> Undef]
  IN Obj([k \in DOMAIN base \cup {"file_path"} |->
            IF k = "file_path" THEN source ELSE base[k]])

\* the entry pushed after handleEmbedFileContent has settled
UploadEntry(sourceDesc, promise) ==
  IF promise.state = "fulfilled"
  THEN [sourceDesc |-> sourceDesc, fileId |-> ExtractFileId(promise.value), error |-> Undef]
  ELSE [sourceDesc |-> sourceDesc, fileId |-> Undef, error |-> Str(promise.error.message)]

\* the read error's message lost: only the fallback text is recorded
ReadErrorEntryGeneric(source, readMessage) ==
  [sourceDesc |-> source, fileId |-> Undef, error |-> Str(<<"Failed to read file content">>)]

\* the entry pushed for a source that could not be read
ReadErrorEntry(source, readMessage) ==
  LET errorMsg == Str(<<"Failed to read file \"">> \o source.s \o <<"\": ">> \o readMessage)
  IN [sourceDesc |-> source, fileId |-> Undef,
      error |-> OrElse(errorMsg, Str(<<"Failed to read file content">>))]

\* results.filter(r => r.fileId).map(r => r.fileId)
SuccessfulIds(results) ==
  LET kept == SelectSeq(results, LAMBDA r : Truthy(r.fileId))
  IN [i \in 1..Len(kept) |-> ToText(kept[i].fileId)]

\* results.filter(r => r.error).map(r => "${r.sourceDesc} (${r.error})")
FailedEntries(results) ==
  LET kept == SelectSeq(results, LAMBDA r : Truthy(r.error))
  IN [i \in 1..Len(kept) |->
        ToText(kept[i].sourceDesc) \o <<" (">> \o ToText(kept[i].error) \o <<")">>]

\* the summary text of a batch
BatchSummary(head, succeededText, failedText, failedLabel, results, successCount, errorCount) ==
  TextContent(Str(
    <<head, ToString(successCount), succeededText, ToString(errorCount), failedText>>
    \o (IF successCount > 0
        THEN <<"\nSuccessful File IDs: ">> \o Join(SuccessfulIds(results), <<", ">>)
        ELSE <<>>)
    \o (IF errorCount > 0
        THEN <<failedLabel>> \o Join(FailedEntries(results), <<", ">>)
        ELSE <<>>)))

\* a summary that carries the error flag as soon as one item failed
TextsSummaryFlaggingFailures(results, successCount, errorCount) ==
  [BatchSummary("Batch embed completed. ", " items succeeded, ", " items failed.",
                "\nFailed items: ", results, successCount, errorCount)
     EXCEPT !.isError = errorCount > 0]

TextsSummary(results, successCount, errorCount) ==
  BatchSummary("Batch embed completed. ", " items succeeded, ", " items failed.",
               "\nFailed items: ", results, successCount, errorCount)

\* successes counted as the results that carry a file id
FilesSuccessCountByFileId(results) == Len(SelectSeq(results, LAMBDA r : Truthy(r.fileId)))

\* the counts of handleEmbedFiles are recomputed from the final results
FilesSuccessCount(results) == Len(SelectSeq(results, LAMBDA r : ~ Truthy(r.error)))

\* failures counted as the results that carry no file id
FilesErrorCountByMissingId(results) == Len(SelectSeq(results, LAMBDA r : ~ Truthy(r.fileId)))

FilesErrorCount(results) == Len(SelectSeq(results, LAMBDA r : Truthy(r.error)))

FilesSummary(results) ==
  BatchSummary("Batch embed files completed. ", " sources succeeded, ", " sources failed.",
               "\nFailed sources: ", results, FilesSuccessCount(results),
               FilesErrorCount(results))

\* ------------------------------------------------------------------------
\* tools.ts: the input schemas
\* ------------------------------------------------------------------------
NoSchema == [type |-> "any"]

StringSchema == [type |-> "string"]

NumberSchema == [type |-> "number"]

ArraySchema(items) == [type |-> "array", items |-> items]

\* additional is the schema of additionalProperties (NoSchema when not given)
ObjectSchema(properties, required, additional) ==
  [type |-> "object", properties |-> properties, required |-> required,
   additional |-> additional]

NoProperties == [k \in {} |-> NoSchema]

CreateCollectionArgsSchema ==
  ObjectSchema([name |-> StringSchema, description |-> StringSchema], {"name"}, NoSchema)

ListCollectionsArgsSchema == ObjectSchema(NoProperties, {}, NoSchema)

AddFileToCollectionArgsSchema ==
  ObjectSchema([collectionId |-> StringSchema, fileId |-> StringSchema],
               {"collectionId", "fileId"}, NoSchema)

ListFilesInCollectionArgsSchema ==
  ObjectSchema([collectionId |-> StringSchema], {"collectionId"}, NoSchema)

QueryCollectionArgsSchema ==
  ObjectSchema(
    [collectionId |-> StringSchema,
     queryText |-> StringSchema,
     limit |-> NumberSchema,
     maxDistance |-> NumberSchema,
     graphDepth |-> NumberSchema,
     graphTopN |-> NumberSchema,
     graphRelationshipTypes |-> ArraySchema(StringSchema),
     includeMetadataFilters |->
       ArraySchema(ObjectSchema([field |-> StringSchema, value |-> StringSchema],
                                {"field", "value"}, NoSchema)),
     excludeMetadataFilters |->
       ArraySchema(ObjectSchema([field |-> StringSchema, value |-> StringSchema,
                                 pattern |-> StringSchema], {"field"}, NoSchema))],
    {"collectionId", "queryText"}, NoSchema)

DeleteFileArgsSchema == ObjectSchema([fileId |-> StringSchema], {"fileId"}, NoSchema)

EmbedTextsArgsSchema ==
  ObjectSchema(
    [collectionId |-> StringSchema,
     items |-> ArraySchema(
       ObjectSchema([text |-> StringSchema,
                     metadata |-> ObjectSchema(NoProperties, {}, StringSchema)],
                    {"text"}, NoSchema))],
    {"items"}, NoSchema)

EmbedFilesArgsSchema ==
  ObjectSchema(
    [sources |-> ArraySchema(StringSchema),
     collectionId |-> StringSchema,
     metadata |-> ObjectSchema(NoProperties, {}, StringSchema)],
    {"sources"}, NoSchema)

\* the inputSchema of each entry of toolsList
InputSchema(name) ==
  CASE name = "create_collection" -> CreateCollectionArgsSchema
    [] name = "list_collections" -> ListCollectionsArgsSchema
    [] name = "add_file_to_collection" -> AddFileToCollectionArgsSchema
    [] name = "list_files_in_collection" -> ListFilesInCollectionArgsSchema
    [] name = "embed_texts" -> EmbedTextsArgsSchema
    [] name = "embed_files" -> EmbedFilesArgsSchema
    [] name = "query_collection" -> QueryCollectionArgsSchema
    [] name = "delete_file" -> DeleteFileArgsSchema

\* the value has the shape the schema declares
RECURSIVE SchemaAccepts(_, _)
SchemaAccepts(schema, v) ==
  CASE schema.type = "any" -> TRUE
    [] schema.type = "string" -> v.t = "string"
    [] schema.type = "number" -> v.t = "number"
    [] schema.type = "array" ->
         /\ v.t = "array"
         /\ \A i \in 1..Len(v.e) : SchemaAccepts(schema.items, v.e[i])
    [] schema.type = "object" ->
         /\ v.t = "object"
         /\ \A k \in schema.required : Get(v, k) # Undef
         /\ \A k \in DOMAIN v.f :
              v.f[k] # Undef =>
                IF k \in DOMAIN schema.properties
                THEN SchemaAccepts(schema.properties[k], v.f[k])
                ELSE SchemaAccepts(schema.additional, v.f[k])

\* ------------------------------------------------------------------------
\* tools.ts: the registry
\* ------------------------------------------------------------------------
\* the registry with the node lookup tool listed as well
toolsListWithNodeTool ==
  << "create_collection", "list_collections", "add_file_to_collection",
     "list_files_in_collection", "embed_texts", "embed_files", "query_collection",
     "delete_file", "get_arangodb_node" >>

toolsList ==
  << "create_collection", "list_collections", "add_file_to_collection",
     "list_files_in_collection", "embed_texts", "embed_files", "query_collection",
     "delete_file" >>

ToolNames == {toolsList[i] : i \in 1..Len(toolsList)}

\* ------------------------------------------------------------------------
\* server.ts: the CallTool request handler
\* ------------------------------------------------------------------------
\* the switch without its delete_file case
RouterCasesWithoutDelete ==
  { "create_collection", "list_collections", "embed_texts", "embed_files",
    "add_file_to_collection", "list_files_in_collection", "query_collection" }

\* the cases of the switch
RouterCases ==
  { "create_collection", "list_collections", "embed_texts", "embed_files",
    "add_file_to_collection", "list_files_in_collection", "query_collection", "delete_file" }

SingleCallTools == RouterCases \ {"embed_texts", "embed_files"}

\* the validator each case applies
Validator(name, args) ==
  CASE name = "create_collection" -> isValidCreateCollectionArgs(args)
    [] name = "list_collections" -> isValidListCollectionsArgs(args)
    [] name = "embed_texts" -> isValidEmbedTextsArgs(args)
    [] name = "embed_files" -> isValidEmbedFilesArgs(args)
    [] name = "add_file_to_collection" -> isValidAddFileToCollectionArgs(args)
    [] name = "list_files_in_collection" -> isValidListFilesInCollectionArgs(args)
    [] name = "query_collection" -> isValidQueryCollectionArgs(args)
    [] name = "delete_file" -> isValidDeleteFileArgs(args)

\* every case throwing the message of the first case
InvalidArgumentsMessagePasted(name) == <<"Invalid arguments for ", "create_collection">>

\* the message of the McpError each case throws on invalid arguments
InvalidArgumentsMessage(name) ==
  CASE name = "create_collection" -> <<"Invalid arguments for ", "create_collection">>
    [] name = "list_collections" -> <<"Invalid arguments for ", "list_collections">>
    [] name = "embed_texts" -> <<"Invalid arguments for ", "embed_texts">>
    [] name = "embed_files" -> <<"Invalid arguments for ", "embed_files">>
    [] name = "add_file_to_collection" -> <<"Invalid arguments for ", "add_file_to_collection">>
    [] name = "list_files_in_collection" ->
         <<"Invalid arguments for ", "list_files_in_collection">>
    [] name = "query_collection" -> <<"Invalid arguments for ", "query_collection">>
    [] name = "delete_file" -> <<"Invalid arguments for ", "delete_file">>

\* the caller's searchMode and enableGraphSearch passed through
QueryPayloadPassThrough(args) ==
  Obj(DropUndef(
    [collectionId |-> Get(args, "collectionId"),
     queryText |-> Get(args, "queryText"),
     limit |-> Get(args, "limit"),
     searchMode |-> Get(args, "searchMode"),
     maxDistance |-> Get(args, "maxDistance"),
     includeMetadataFilters |-> Get(args, "includeMetadataFilters"),
     excludeMetadataFilters |-> Get(args, "excludeMetadataFilters"),
     enableGraphSearch |-> Get(args, "enableGraphSearch"),
     graphDepth |-> Get(args, "graphDepth"),
     graphTopN |-> Get(args, "graphTopN"),
     graphRelationshipTypes |-> Get(args, "graphRelationshipTypes")]))

\* queryPayload, with its undefined keys deleted
QueryPayload(args) ==
  Obj(DropUndef(
    [collectionId |-> Get(args, "collectionId"),
     queryText |-> Get(args, "queryText"),
     limit |-> Get(args, "limit"),
     searchMode |-> Str(<<"hybrid">>),
     maxDistance |-> Get(args, "maxDistance"),
     includeMetadataFilters |-> Get(args, "includeMetadataFilters"),
     excludeMetadataFilters |-> Get(args, "excludeMetadataFilters"),
     enableGraphSearch |-> Bool(TRUE),
     graphDepth |-> Get(args, "graphDepth"),
     graphTopN |-> Get(args, "graphTopN"),
     graphRelationshipTypes |-> Get(args, "graphRelationshipTypes")]))

\* the endpoint, method and data each single-call case hands to handleApiCall
ApiCallOf(name, args) ==
  CASE name = "create_collection" ->
         [endpoint |-> <<"/collections">>, method |-> "post", data |-> args]
    [] name = "list_collections" ->
         [endpoint |-> <<"/collections">>, method |-> "get", data |-> Undef]
    [] name = "add_file_to_collection" ->
         [endpoint |-> <<"/collections/">> \o ToText(Get(args, "collectionId")) \o <<"/files">>,
          method |-> "post", data |-> Obj([fileId |-> Get(args, "fileId")])]
    [] name = "list_files_in_collection" ->
         [endpoint |-> <<"/collections/">> \o ToText(Get(args, "collectionId")) \o <<"/files">>,
          method |-> "get", data |-> Undef]
    [] name = "query_collection" ->
         [endpoint |-> <<"/query">>, method |-> "post", data |-> QueryPayload(args)]
    [] name = "delete_file" ->
         [endpoint |-> <<"/files/">> \o ToText(Get(args, "fileId")), method |-> "delete",
          data |-> Undef]

\* the request handleApiCall issues
ApiRequest(name, args) ==
  [method |-> ApiCallOf(name, args).method, url |-> ApiCallOf(name, args).endpoint,
   data |-> ApiPayload(name, ApiCallOf(name, args).data), item |-> 0]

\* the request handleEmbedFileContent issues for item i of a batch
UploadRequest(i, scrapedContent, sourceIdentifier, collectionId, metadata) ==
  [method |-> "post", url |-> <<"/files/upload">>,
   data |-> UploadForm(scrapedContent, sourceIdentifier, collectionId, metadata), item |-> i]

\* the catch block of the handler: the error becomes an error response
RouterCatch(error) ==
  Fulfilled([content |-> <<[type |-> "text",
                            text |-> Str(<<"Error: ">>
                                         \o (IF error.cls \in {"McpError", "Error", "AxiosError"}
                                             THEN error.message
                                             ELSE <<"Unknown internal error">>))]>>,
             isError |-> TRUE])

\* "return handleX(...)" inside the try block: the promise is returned without
\* being awaited, so the handler's own promise takes its outcome and a
\* rejection does not pass through the catch block
RouterReturn(promise) == promise

\* ------------------------------------------------------------------------
\* The callers and the backend: the inputs the model draws from
\* ------------------------------------------------------------------------
S(x) == Str(<<x>>)

\* items of an embed_texts call
ItemSamples ==
  { Obj([text |-> S("alpha")]),
    Obj([text |-> S("beta"), metadata |-> Obj([source_url |-> Str(<<"http://", "x">>)])]),
    Obj([text |-> S("gamma"), metadata |-> Obj([file_path |-> Str(<<"/", "notes">>)])]),
    Obj([text |-> S("delta"), metadata |-> Obj([source_url |-> Str(<<>>), title |-> S("T")])]) }

\* sources of an embed_files call
SourceSamples == {S("a.txt"), S("missing.txt"), Str(<<"/", "docs", "/", "b.md">>)}

SeqsUpTo(set, n) == UNION {[1..k -> set] : k \in 0..n}

ValidQueryArgs ==
  { Obj([collectionId |-> S("c1"), queryText |-> S("q")]),
    Obj([collectionId |-> S("c2"), queryText |-> S("q"), limit |-> Num(5),
         searchMode |-> S("vector"), maxDistance |-> Num(1),
         includeMetadataFilters |-> Arr(<<Obj([field |-> S("lang"), value |-> S("en")])>>),
         excludeMetadataFilters |-> Arr(<<Obj([field |-> S("tag"), pattern |-> S("%x%")])>>),
         graphDepth |-> Num(2), graphTopN |-> Num(3),
         graphRelationshipTypes |-> Arr(<<S("cites")>>)]),
    Obj([collectionId |-> S("c1"), queryText |-> S("q"), graphDepth |-> S("deep")]),
    Obj([collectionId |-> S("c1"), queryText |-> S("q"), searchMode |-> S("keyword"),
         enableGraphSearch |-> Bool(FALSE)]) }

\* the arguments a caller may send with each tool name (valid and invalid)
ArgSamples(name) ==
  CASE name = "create_collection" ->
         { Obj([name |-> S("Docs")]), Obj([name |-> S("Docs"), description |-> S("d")]),
           Obj([name |-> Num(1)]), EmptyObj, Null, Undef, S("x") }
    [] name = "list_collections" -> {EmptyObj, Undef, Obj([x |-> Num(1)]), Arr(<<>>)}
    [] name = "add_file_to_collection" ->
         { Obj([collectionId |-> S("c1"), fileId |-> S("f1")]), Obj([collectionId |-> S("c1")]),
           Obj([collectionId |-> S("c1"), fileId |-> Num(7)]) }
    [] name = "list_files_in_collection" -> {Obj([collectionId |-> S("c1")]), EmptyObj, Null}
    [] name = "query_collection" ->
         ValidQueryArgs \cup
         { Obj([collectionId |-> S("c1")]),
           Obj([collectionId |-> S("c1"), queryText |-> S("q"), limit |-> S("ten")]),
           Obj([collectionId |-> S("c1"), queryText |-> S("q"), searchMode |-> S("fuzzy")]),
           Obj([collectionId |-> S("c1"), queryText |-> S("q"),
                includeMetadataFilters |-> Arr(<<Obj([field |-> S("lang")])>>)]) }
    [] name = "delete_file" -> {Obj([fileId |-> S("f1")]), Obj([fileId |-> Null]), Undef}
    [] name = "embed_texts" ->
         {Obj([items |-> Arr(list)]) : list \in SeqsUpTo(ItemSamples, MaxItems)} \cup
         { Obj([items |-> Arr(<<Obj([text |-> S("alpha")])>>), collectionId |-> S("c1")]),
           EmptyObj, Undef,
           Obj([items |-> Arr(<<S("alpha")>>)]),
           Obj([items |-> Arr(<<Obj([text |-> S("alpha"), metadata |-> Obj([n |-> Num(1)])])>>)]),
           Obj([items |-> Arr(<<>>), collectionId |-> Num(3)]) }
    [] name = "embed_files" ->
         {Obj([sources |-> Arr(list)]) : list \in SeqsUpTo(SourceSamples, MaxItems)} \cup
         { Obj([sources |-> Arr(<<S("a.txt")>>), collectionId |-> S("c1"),
                metadata |-> Obj([file_path |-> S("base"), tags |-> S("t")])]),
           Obj([sources |-> Arr(<<S("a.txt"), Str(<<"/", "docs", "/", "b.md">>)>>),
                metadata |-> Obj([file_path |-> S("base"), tags |-> S("t")])]),
           EmptyObj, Null,
           Obj([sources |-> Arr(<<S(" ")>>)]),
           Obj([sources |-> Arr(<<Num(1)>>)]),
           Obj([sources |-> Arr(<<S("a.txt")>>), metadata |-> Arr(<<>>)]) }
    [] OTHER -> {EmptyObj, Obj([nodeKey |-> S("doc_1")])}

\* the tool names a caller may send
RequestNames == ToolNames \cup RouterCases \cup {"get_arangodb_node", "no_such_tool"}

Statuses == {200, 204, 404, 500}

StatusText(status) ==
  CASE status = 200 -> <<"OK">>
    [] status = 204 -> <<"No Content">>
    [] status = 404 -> <<"Not Found">>
    [] status = 500 -> <<"Internal Server Error">>
    [] OTHER -> <<>>

\* response bodies of the single-call endpoints
ApiBodies ==
  { Str(<<>>), Arr(<<>>),
    Arr(<<Obj([id |-> Str(<<"c", "1">>), name |-> S("Docs")])>>),
    Obj([id |-> Str(<<"c", "1">>), name |-> S("Docs")]),
    Obj([message |-> S("boom")]) }

\* response bodies of /files/upload
UploadBodies ==
  { Str(<<>>), Obj([message |-> S("bad file")]),
    Obj([data |-> Obj([id |-> Str(<<"a", "1", "-", "f">>)])]),
    Obj([data |-> Obj([id |-> Str(<<"Z", "9">>)])]) }

TransportMessages == {<<"Network Error">>}

ApiOutcomes ==
  {HttpResponse(st, StatusText(st), b) : st \in Statuses, b \in ApiBodies}
  \cup {NoResponse(m) : m \in TransportMessages}

UploadOutcomes ==
  {HttpResponse(st, StatusText(st), b) : st \in Statuses \ {204}, b \in UploadBodies}
  \cup {NoResponse(m) : m \in TransportMessages}

NotSent == [kind |-> "none", status |-> 0, statusText |-> <<>>, data |-> Undef, msg |-> <<>>]

\* what fs.readFile does with one source
ReadOutcomes ==
  { [ok |-> TRUE, content |-> S("file text"), message |-> <<>>],
    [ok |-> FALSE, content |-> Null, message |-> <<"ENOENT: no such file or directory">>] }

\* ------------------------------------------------------------------------
\* State
\* ------------------------------------------------------------------------
VARIABLES
  pc,            \* "awaiting", the await at which the invocation is suspended, or
                 \* "responding" once the handler's promise has settled
  req,           \* the tool invocation being (or last) handled: name, args
  verdict,       \* the validator's verdict for it: "none", "accepted", "rejected"
  idx,           \* batch: the item being processed (0: none)
  content,       \* embed_files: the content read for the current source
  results,       \* batch: the results array
  successCount,  \* batch: the counter of the same name
  errorCount,    \* batch: the counter of the same name
  inflight,      \* the I/O operations issued and not yet settled
  httpLog,       \* the HTTP requests issued by the invocation, in order
  reads,         \* the file reads issued by the invocation, in order
  outcomes,      \* what the backend / file system did, per request or item
  settled,       \* the promise the handler returned to the transport
  toolsAnswer,   \* the answer to the last tool-list query
  axiosInstance, \* the HTTP client the constructor built: its configuration
  env            \* the process environment the server was started in

vars ==
  << pc, req, verdict, idx, content, results, successCount, errorCount, inflight, httpLog,
     reads, outcomes, settled, toolsAnswer, axiosInstance, env >>

NoPromise == [state |-> "none", value |-> NoValue, error |-> NoError]

NoRequest == [name |-> "", args |-> Undef]

Init ==
  /\ pc = "awaiting"
  /\ req = NoRequest
  /\ verdict = "none"
  /\ idx = 0
  /\ content = Null
  /\ results = <<>>
  /\ successCount = 0
  /\ errorCount = 0
  /\ inflight = {}
  /\ httpLog = <<>>
  /\ reads = <<>>
  /\ outcomes = <<>>
  /\ settled = NoPromise
  /\ toolsAnswer = <<>>
  /\ \E url \in EnvApiUrls :
       /\ env = Env(url, VECTRA_API_KEY)
       /\ axiosInstance = AxiosCreate(VECTRA_API_URL(url), VECTRA_API_KEY)

\* ------------------------------------------------------------------------
\* The batch loops (handlers.ts)
\* ------------------------------------------------------------------------
\* "batch-text-item-${Date.now()}.txt"
PlaceholderUrl == <<"batch-text-item-", "<Date.now()>", ".txt">>

\* every remaining item started at once (items.map without awaiting each)
LoopIssuesAll(done, n) == IF done < n THEN (done + 1)..n ELSE {}

\* for (const item of items) { ... await ... }: the items whose processing
\* starts once `done` of the n items have been processed
\* a loop that stops one item early
LoopIssuesSkipsLast(done, n) == IF done + 1 < n THEN {done + 1} ELSE {}

LoopIssues(done, n) == IF done < n THEN {done + 1} ELSE {}

IoOps(kind, items) == {[kind |-> kind, item |-> i] : i \in items}

\* handleEmbedTexts at the top of its loop, newResults being the results so
\* far and issued the items whose processing starts now
TextsLoopFrom(args, log, newResults, sc, ec, issued) ==
  LET items == Get(args, "items").e
      request(i) == UploadRequest(i, Get(items[i], "text"), PlaceholderUrl,
                                  Get(args, "collectionId"), Get(items[i], "metadata"))
  IN /\ results' = newResults
     /\ successCount' = sc
     /\ errorCount' = ec
     /\ IF issued # {}
        THEN /\ pc' = "texts_wait"
             /\ idx' = Len(newResults) + 1
             /\ inflight' = IoOps("http", issued)
             /\ httpLog' = log \o [j \in 1..Cardinality(issued) |-> request(Len(newResults) + j)]
             /\ settled' = Pending
        ELSE /\ pc' = "responding"
             /\ idx' = 0
             /\ inflight' = {}
             /\ httpLog' = log
             /\ settled' = RouterReturn(Fulfilled(TextsSummary(newResults, sc, ec)))

\* a loop that stops at the first failed item
TextsLoopAbortOnError(args, log, newResults, sc, ec) ==
  TextsLoopFrom(args, log, newResults, sc, ec,
                IF ec > 0 THEN {} ELSE LoopIssues(Len(newResults), Len(Get(args, "items").e)))

\* a loop that sends the upload of a failed item a second time
TextsLoopRetryOnce(args, log, newResults, sc, ec) ==
  LET n == Len(newResults)
  IN IF /\ n > 0
        /\ Truthy(newResults[n].error)
        /\ Cardinality({j \in 1..Len(log) : log[j].item = n}) < 2
     THEN TextsLoopFrom(args, log, SubSeq(newResults, 1, n - 1), sc, ec - 1, {n})
     ELSE TextsLoopFrom(args, log, newResults, sc, ec,
                        LoopIssues(n, Len(Get(args, "items").e)))

TextsLoop(args, log, newResults, sc, ec) ==
  TextsLoopFrom(args, log, newResults, sc, ec,
                LoopIssues(Len(newResults), Len(Get(args, "items").e)))

\* handleEmbedFiles at the top of its loop
FilesLoop(args, rlog, newResults) ==
  LET sources == Get(args, "sources").e
      issued == LoopIssues(Len(newResults), Len(sources))
  IN /\ results' = newResults
     /\ content' = Null
     /\ IF issued # {}
        THEN /\ pc' = "files_read"
             /\ idx' = Len(newResults) + 1
             /\ inflight' = IoOps("read", issued)
             /\ reads' = rlog \o [j \in 1..Cardinality(issued) |-> sources[Len(newResults) + j]]
             /\ settled' = Pending
             /\ successCount' = 0
             /\ errorCount' = 0
        ELSE /\ pc' = "responding"
             /\ idx' = 0
             /\ inflight' = {}
             /\ reads' = rlog
             /\ successCount' = FilesSuccessCount(newResults)
             /\ errorCount' = FilesErrorCount(newResults)
             /\ settled' = RouterReturn(Fulfilled(FilesSummary(newResults)))

\* ------------------------------------------------------------------------
\* Actions
\* ------------------------------------------------------------------------
\* ListToolsRequestSchema handler
ListTools ==
  /\ pc = "awaiting"
  /\ toolsAnswer' = toolsList
  /\ UNCHANGED << pc, req, verdict, idx, content, results, successCount, errorCount, inflight,
                  httpLog, reads, outcomes, settled, axiosInstance, env >>

\* CallToolRequestSchema handler, up to its first await (or its return)
CallTool(name, args) ==
  /\ pc = "awaiting"
  /\ req' = [name |-> name, args |-> args]
  /\ outcomes' = <<>>
  /\ UNCHANGED << toolsAnswer, axiosInstance, env >>
  /\ IF name \notin RouterCases \/ ~ Validator(name, args)
     THEN /\ verdict' = IF name \in RouterCases THEN "rejected" ELSE "none"
          /\ settled' = IF name \in RouterCases
                        THEN RouterCatch(McpError(InvalidParams, InvalidArgumentsMessage(name)))
                        ELSE RouterCatch(McpError(MethodNotFound, <<"Unknown tool: ", name>>))
          /\ pc' = "responding"
          /\ idx' = 0
          /\ content' = Null
          /\ results' = <<>>
          /\ successCount' = 0
          /\ errorCount' = 0
          /\ inflight' = {}
          /\ httpLog' = <<>>
          /\ reads' = <<>>
     ELSE /\ verdict' = "accepted"
          /\ CASE name = "embed_texts" ->
                    /\ TextsLoop(args, <<>>, <<>>, 0, 0)
                    /\ content' = Null
                    /\ reads' = <<>>
               [] name = "embed_files" ->
                    /\ FilesLoop(args, <<>>, <<>>)
                    /\ httpLog' = <<>>
               [] OTHER ->
                    /\ pc' = "api_wait"
                    /\ inflight' = IoOps("http", {0})
                    /\ httpLog' = <<ApiRequest(name, args)>>
                    /\ settled' = Pending
                    /\ idx' = 0
                    /\ content' = Null
                    /\ results' = <<>>
                    /\ successCount' = 0
                    /\ errorCount' = 0
                    /\ reads' = <<>>

\* handleApiCall resumes with the outcome of its request
ApiSettle(out) ==
  /\ pc = "api_wait"
  /\ outcomes' = <<[read |-> "none", upload |-> out]>>
  /\ settled' = RouterReturn(handleApiCall(out, ApiCallOf(req.name, req.args).method, req.name))
  /\ pc' = "responding"
  /\ inflight' = {}
  /\ UNCHANGED << req, verdict, idx, content, results, successCount, errorCount, httpLog,
                  reads, toolsAnswer, axiosInstance, env >>

\* handleEmbedTexts resumes with the outcome of the upload of item idx
TextsUploadSettle(out) ==
  /\ pc = "texts_wait"
  /\ LET item == Get(req.args, "items").e[idx]
         promise == handleEmbedFileContent(out, PlaceholderUrl, Get(item, "metadata"))
         entry == UploadEntry(TextSourceDesc(item, results), promise)
         ok == promise.state = "fulfilled"
     IN TextsLoop(req.args, httpLog, Append(results, entry),
                  IF ok THEN successCount + 1 ELSE successCount,
                  IF ok THEN errorCount ELSE errorCount + 1)
  /\ outcomes' = Append(outcomes, [read |-> "none", upload |-> out])
  /\ UNCHANGED << req, verdict, content, reads, toolsAnswer, axiosInstance, env >>

\* handleEmbedFiles resumes with the outcome of reading source idx
FilesReadSettle(r) ==
  /\ pc = "files_read"
  /\ LET source == Get(req.args, "sources").e[idx]
     IN IF r.ok /\ r.content # Null
        THEN /\ content' = r.content
             /\ pc' = "files_upload"
             /\ inflight' = IoOps("http", {idx})
             /\ httpLog' = Append(httpLog,
                  UploadRequest(idx, r.content, source.s, Get(req.args, "collectionId"),
                                ItemMetadata(Get(req.args, "metadata"), source)))
             /\ UNCHANGED << idx, results, successCount, errorCount, reads, outcomes, settled >>
        ELSE /\ FilesLoop(req.args, reads, Append(results, ReadErrorEntry(source, r.message)))
             /\ outcomes' = Append(outcomes, [read |-> "fail", upload |-> NotSent])
             /\ UNCHANGED httpLog
  /\ UNCHANGED << req, verdict, toolsAnswer, axiosInstance, env >>

\* handleEmbedFiles resumes with the outcome of the upload of source idx
FilesUploadSettle(out) ==
  /\ pc = "files_upload"
  /\ LET source == Get(req.args, "sources").e[idx]
         promise == handleEmbedFileContent(out, source.s,
                                           ItemMetadata(Get(req.args, "metadata"), source))
     IN FilesLoop(req.args, reads, Append(results, UploadEntry(source, promise)))
  /\ outcomes' = Append(outcomes, [read |-> "ok", upload |-> out])
  /\ UNCHANGED << req, verdict, httpLog, toolsAnswer, axiosInstance, env >>

\* the transport takes the settled promise of the handler; the invocation and
\* everything it allocated are discarded
Respond ==
  /\ pc = "responding"
  /\ pc' = "awaiting"
  /\ req' = NoRequest
  /\ verdict' = "none"
  /\ idx' = 0
  /\ content' = Null
  /\ results' = <<>>
  /\ successCount' = 0
  /\ errorCount' = 0
  /\ inflight' = {}
  /\ httpLog' = <<>>
  /\ reads' = <<>>
  /\ outcomes' = <<>>
  /\ settled' = NoPromise
  /\ UNCHANGED << toolsAnswer, axiosInstance, env >>

Next ==
  \/ ListTools
  \/ \E name \in RequestNames : \E args \in ArgSamples(name) : CallTool(name, args)
  \/ \E out \in ApiOutcomes : ApiSettle(out)
  \/ \E out \in UploadOutcomes : TextsUploadSettle(out)
  \/ \E r \in ReadOutcomes : FilesReadSettle(r)
  \/ \E out \in UploadOutcomes : FilesUploadSettle(out)
  \/ Respond

Spec == Init /\ [][Next]_vars

\* ------------------------------------------------------------------------
\* The validators on their own: each registered tool's validator applied to
\* argument values built around one valid value of the tool
\* ------------------------------------------------------------------------
\* a valid argument value of each tool
BaseArgs(name) ==
  CASE name = "create_collection" -> Obj([name |-> S("Docs"), description |-> S("d")])
    [] name = "list_collections" -> EmptyObj
    [] name = "add_file_to_collection" -> Obj([collectionId |-> S("c1"), fileId |-> S("f1")])
    [] name = "list_files_in_collection" -> Obj([collectionId |-> S("c1")])
    [] name = "embed_texts" ->
         Obj([items |-> Arr(<<Obj([text |-> S("alpha")])>>), collectionId |-> S("c1")])
    [] name = "embed_files" ->
         Obj([sources |-> Arr(<<S("a.txt")>>), collectionId |-> S("c1"),
              metadata |-> Obj([tags |-> S("t")])])
    [] name = "query_collection" ->
         Obj([collectionId |-> S("c1"), queryText |-> S("q"), limit |-> Num(5),
              maxDistance |-> Num(1), graphDepth |-> Num(2), graphTopN |-> Num(3),
              graphRelationshipTypes |-> Arr(<<S("cites")>>),
              includeMetadataFilters |->
                Arr(<<Obj([field |-> S("lang"), value |-> S("en")])>>),
              excludeMetadataFilters |->
                Arr(<<Obj([field |-> S("tag"), pattern |-> S("%x%")])>>)])
    [] name = "delete_file" -> Obj([fileId |-> S("f1")])

\* values that are not objects
NonObjects == {Undef, Null, S("x"), Num(1), Bool(TRUE), Arr(<<>>), Arr(<<S("x")>>)}

\* the values one argument is given
FieldValues ==
  { Undef, Null, S("x"), S("hybrid"), Str(<<>>), Num(1), Bool(TRUE), EmptyObj,
    Obj([a |-> S("b")]), Obj([a |-> Num(1)]),
    Arr(<<>>), Arr(<<S("x")>>), Arr(<<Num(1)>>), Arr(<<S("x"), Null>>),
    Arr(<<EmptyObj>>), Arr(<<Obj([text |-> S("t")])>>), Arr(<<Obj([text |-> Num(1)])>>),
    Arr(<<Obj([text |-> S("t"), metadata |-> Obj([a |-> Num(1)])])>>),
    Arr(<<Obj([field |-> S("f"), value |-> S("v")])>>),
    Arr(<<Obj([field |-> S("f"), value |-> Num(1)])>>),
    Arr(<<Obj([field |-> Num(1), pattern |-> S("p")])>>) }

\* the arguments a tool declares, and searchMode, which the query validator
\* still checks
FieldNames(name) ==
  DOMAIN InputSchema(name).properties
    \cup (IF name = "query_collection" THEN {"searchMode"} ELSE {})
    \cup (IF name = "list_collections" THEN {"extra"} ELSE {})

WithField(obj, k, v) == Obj([x \in DOMAIN obj.f \cup {k} |-> IF x = k THEN v ELSE obj.f[x]])

\* the longest filter list considered
MaxFilters == 2

\* the elements a filter list is built from
FilterSamples ==
  { Null, S("x"), EmptyObj, Arr(<<>>),
    Obj([field |-> S("f"), value |-> S("v")]),
    Obj([field |-> S("f"), pattern |-> S("p")]),
    Obj([field |-> S("f"), value |-> S("v"), pattern |-> S("p")]),
    Obj([field |-> S("f")]),
    Obj([field |-> S("f"), value |-> Num(1)]),
    Obj([field |-> S("f"), value |-> S("v"), pattern |-> Num(1)]),
    Obj([field |-> S("f"), value |-> Null, pattern |-> S("p")]),
    Obj([field |-> Num(1), value |-> S("v")]) }

FilterFields == {"includeMetadataFilters", "excludeMetadataFilters"}

\* a query whose one filter argument is a list of up to MaxFilters elements
FilterListInputs ==
  { WithField(BaseArgs("query_collection"), k, Arr(list)) :
      k \in FilterFields, list \in SeqsUpTo(FilterSamples, MaxFilters) }

ValidatorInputs(name) ==
  NonObjects \cup {BaseArgs(name)}
    \cup {WithField(BaseArgs(name), k, v) : k \in FieldNames(name), v \in FieldValues}
    \cup (IF name = "query_collection" THEN FilterListInputs ELSE {})

InitV ==
  /\ pc = "validating"
  /\ \E name \in ToolNames : \E args \in ValidatorInputs(name) :
       req = [name |-> name, args |-> args]
  /\ verdict = "none"
  /\ idx = 0
  /\ content = Null
  /\ results = <<>>
  /\ successCount = 0
  /\ errorCount = 0
  /\ inflight = {}
  /\ httpLog = <<>>
  /\ reads = <<>>
  /\ outcomes = <<>>
  /\ settled = NoPromise
  /\ toolsAnswer = <<>>
  /\ \E url \in EnvApiUrls :
       /\ env = Env(url, VECTRA_API_KEY)
       /\ axiosInstance = AxiosCreate(VECTRA_API_URL(url), VECTRA_API_KEY)

\* the guard at the head of the tool's case: if (!isValidXArgs(args)) throw
Validate ==
  /\ pc = "validating"
  /\ verdict' = IF Validator(req.name, req.args) THEN "accepted" ELSE "rejected"
  /\ pc' = "validated"
  /\ UNCHANGED << req, idx, content, results, successCount, errorCount, inflight, httpLog,
                  reads, outcomes, settled, toolsAnswer, axiosInstance, env >>

NextV == Validate

SpecV == InitV /\ [][NextV]_vars

\* ------------------------------------------------------------------------
\* Properties
\* ------------------------------------------------------------------------
Done == pc = "responding"

BatchTools == {"embed_texts", "embed_files"}

SingleDone == Done /\ verdict = "accepted" /\ req.name \in SingleCallTools

BatchDone == Done /\ verdict = "accepted" /\ req.name \in BatchTools

\* the items handed to the batch in progress
BatchInput ==
  IF req.name = "embed_texts" THEN Get(req.args, "items").e ELSE Get(req.args, "sources").e

\* the backend or the file system made the item (or the single call) fail
ItemFailed(o) ==
  \/ o.read = "fail"
  \/ o.upload.kind = "noresponse"
  \/ o.upload.kind = "response" /\ o.upload.status >= 400

\* { content: [{ type: 'text', text: 'Error: ...' }], isError: true }
IsErrorResponse(v) ==
  /\ v.isError
  /\ Len(v.content) = 1
  /\ v.content[1].type = "text"
  /\ v.content[1].text.t = "string"
  /\ Len(v.content[1].text.s) > 0
  /\ v.content[1].text.s[1] = "Error: "

\* the text the caller gets: of the response, or of the error the handler's
\* promise rejected with
DeliveredText ==
  IF settled.state = "rejected" THEN settled.error.message
  ELSE IF Len(settled.value.content) > 0 THEN ToText(settled.value.content[1].text)
  ELSE <<>>

InvocationFailed ==
  \/ req.name \notin RouterCases
  \/ verdict = "rejected"
  \/ SingleDone /\ ItemFailed(outcomes[1])

\* C1: every failure of an invocation (validation, unknown tool, a backend
\* status >= 400, a transport failure) reaches the caller as the response
\* { content: [{ type: 'text', text: 'Error: <message>' }], isError: true };
\* the handler's promise never rejects.
C1_FailuresBecomeErrorResponses ==
  Done => /\ settled.state = "fulfilled"
          /\ (InvocationFailed => IsErrorResponse(settled.value))

\* C2: arguments the tool's validator rejects cause no HTTP request and no
\* file read, and the error response names the tool; no request or read is
\* ever issued before the validator has accepted.
C2_RejectedArgumentsCauseNoIO ==
  /\ (req.name \in RouterCases /\ ~ Validator(req.name, req.args)) =>
       /\ httpLog = <<>> /\ reads = <<>> /\ inflight = {}
       /\ Done
       /\ verdict = "rejected"
       /\ IsErrorResponse(settled.value)
       /\ Includes(DeliveredText, <<"Invalid arguments for ", req.name>>)
  /\ (httpLog # <<>> \/ reads # <<>> \/ inflight # {}) =>
       verdict = "accepted" /\ Validator(req.name, req.args)

C2_Witness ==
  /\ Done
  /\ req.name = "embed_files"
  /\ req.args = Obj([sources |-> Arr(<<Num(1)>>)])
  /\ ~ Validator(req.name, req.args)
  /\ httpLog = <<>> /\ reads = <<>>
  /\ Includes(DeliveredText, <<"Invalid arguments for ", "embed_files">>)

\* the argument value is malformed for the tool: it is not an object, lacks a
\* required argument, gives a declared argument a value of another type, has
\* an array element of the wrong shape, or gives searchMode a value outside
\* the three modes
Malformed(name, args) ==
  \/ ~ SchemaAccepts(InputSchema(name), args)
  \/ /\ name = "query_collection"
     /\ Get(args, "searchMode") # Undef
     /\ ~ (Get(args, "searchMode").t = "string" /\ Get(args, "searchMode").s \in SearchModes)

\* C3: each registered tool's validator returns false for every malformed
\* argument value (for query_collection the declared arguments include limit,
\* maxDistance, graphDepth, graphTopN and graphRelationshipTypes).
C3_MalformedArgumentsRejected ==
  (pc = "validated" /\ Malformed(req.name, req.args)) => verdict = "rejected"

ItemCount == Len(BatchInput)

FailedItems == {i \in 1..Len(outcomes) : ItemFailed(outcomes[i])}

\* C4: the summary of a batch of N items of which K failed reports N - K
\* succeeded and K failed.
C4_SummaryCounts ==
  BatchDone =>
    /\ Len(outcomes) = ItemCount
    /\ settled.state = "fulfilled"
    /\ ~ settled.value.isError
    /\ Len(DeliveredText) >= 5
    /\ DeliveredText[2] = ToString(ItemCount - Cardinality(FailedItems))
    /\ DeliveredText[3] \in {" items succeeded, ", " sources succeeded, "}
    /\ DeliveredText[4] = ToString(Cardinality(FailedItems))
    /\ DeliveredText[5] \in {" items failed.", " sources failed."}

C4_Witness ==
  /\ BatchDone
  /\ req.name = "embed_files"
  /\ ItemCount = 2
  /\ FailedItems = {1}
  /\ outcomes[2].upload.data = Str(<<>>)
  /\ DeliveredText[2] = "1" /\ DeliveredText[4] = "1"

SuccessLabel == "\nSuccessful File IDs: "

FailedLabels == {"\nFailed items: ", "\nFailed sources: "}

\* the number of entries of the list that follows one of the labels in the
\* summary text (entries are separated by ", ")
ListedEntries(text, labels) ==
  LET starts == {p \in 1..Len(text) : text[p] \in labels}
  IN IF starts = {} THEN 0
     ELSE LET p == CHOOSE x \in starts : \A y \in starts : x <= y
              ends == {q \in (p + 1)..Len(text) : text[q] \in FailedLabels \cup {SuccessLabel}}
              e == IF ends = {} THEN Len(text) + 1
                   ELSE CHOOSE x \in ends : \A y \in ends : x <= y
          IN IF e = p + 1 THEN 0
             ELSE 1 + Cardinality({q \in (p + 1)..(e - 1) : text[q] = ", "})

\* C5: in the summary text every item appears in exactly one of the two
\* lists: the succeeded items under 'Successful File IDs', the failed ones as
\* 'description (error)'; the two lists together have N entries.
C5_EveryItemListedOnce ==
  BatchDone =>
    /\ ListedEntries(DeliveredText, {SuccessLabel}) = ItemCount - Cardinality(FailedItems)
    /\ ListedEntries(DeliveredText, FailedLabels) = Cardinality(FailedItems)

\* item i of the batch was attempted: its upload or its read was issued
Attempted(i) ==
  IF req.name = "embed_texts"
  THEN \E k \in 1..Len(httpLog) : httpLog[k].item = i
  ELSE i <= Len(reads) /\ reads[i] = BatchInput[i]

\* C6: the failure of an item does not end the batch: all N items are
\* attempted and recorded, and every failed item is reported in the summary
\* as 'description (error)'.
C6_FailuresDoNotAbort ==
  BatchDone =>
    /\ Len(results) = ItemCount
    /\ \A i \in 1..ItemCount :
         /\ Attempted(i)
         /\ i \in FailedItems =>
              /\ Truthy(results[i].error)
              /\ Includes(DeliveredText,
                          ToText(results[i].sourceDesc) \o <<" (">>
                            \o ToText(results[i].error) \o <<")">>)

C6_Witness ==
  /\ BatchDone
  /\ req.name = "embed_texts"
  /\ ItemCount = 2
  /\ FailedItems = {1}
  /\ Len(results) = 2
  /\ Len(httpLog) = 2

\* C7: the items of a batch are processed one at a time: the upload or read
\* of an item is issued only once the results of all the items before it have
\* been appended, and never two operations are in flight.
C7_OneItemAtATime ==
  /\ Cardinality(inflight) <= 1
  /\ \A op \in inflight : op.item > 0 => Len(results) = op.item - 1
  /\ \A k \in 1..Len(httpLog) : httpLog[k].item <= Len(results) + 1
  /\ Len(reads) <= Len(results) + 1

C7_Witness ==
  /\ pc = "texts_wait"
  /\ inflight = {[kind |-> "http", item |-> 2]}
  /\ Len(results) = 1
  /\ Len(httpLog) = 2

HasText(v, k) ==
  /\ v.t = "object"
  /\ k \in DOMAIN v.f
  /\ v.f[k].t = "string"
  /\ v.f[k].s # <<>>

\* the description of item i: its source_url, else its file_path, else
\* 'text item i'; for embed_files the i-th path
ExpectedDesc(i) ==
  IF req.name = "embed_files" THEN BatchInput[i]
  ELSE LET md == Get(BatchInput[i], "metadata")
       IN IF HasText(md, "source_url") THEN md.f["source_url"]
          ELSE IF HasText(md, "file_path") THEN md.f["file_path"]
          ELSE Str(<<"text item ", ToString(i)>>)

\* the recorded result r tells what happened to the item whose outcome was o
OwnOutcome(r, o) ==
  /\ Truthy(r.error) <=> ItemFailed(o)
  /\ o.read = "fail" => Includes(ToText(r.error), <<"Failed to read file \"">>)
  /\ o.upload.kind = "noresponse" => Includes(ToText(r.error), o.upload.msg)
  /\ (o.upload.kind = "response" /\ o.upload.status >= 400) =>
       IF HasText(o.upload.data, "message")
       THEN Includes(ToText(r.error), o.upload.data.f["message"].s)
       ELSE Includes(ToText(r.error), <<ToString(o.upload.status)>>)
  /\ ~ ItemFailed(o) =>
       LET id == GetOpt(GetOpt(o.upload.data, "data"), "id")
       IN IF Truthy(id) /\ \A j \in 1..Len(id.s) : id.s[j] \in HexChars
          THEN r.fileId = id
          ELSE r.fileId = Undef

\* C8: the results keep the order of the input: the i-th result carries the
\* description of item i and the outcome of item i.
C8_ResultsInInputOrder ==
  (verdict = "accepted" /\ req.name \in BatchTools) =>
    /\ Len(results) = Len(outcomes)
    /\ Len(results) <= ItemCount
    /\ \A i \in 1..Len(results) :
         /\ results[i].sourceDesc = ExpectedDesc(i)
         /\ OwnOutcome(results[i], outcomes[i])

C8_Witness ==
  /\ BatchDone
  /\ req.name = "embed_texts"
  /\ ItemCount = 2
  /\ Get(BatchInput[1], "metadata") # Undef
  /\ Get(BatchInput[2], "metadata") = Undef
  /\ results[2].sourceDesc = Str(<<"text item ", "2">>)
  /\ FailedItems = {1}
  /\ results[2].fileId = Str(<<"a", "1", "-", "f">>)

StatusError(o) == o.upload.kind = "response" /\ o.upload.status >= 400

\* C9: every response with status >= 400, to a single call or to an upload,
\* yields an error whose message includes the HTTP status code, whether or
\* not the body carries a message.
C9_StatusErrorsCarryTheCode ==
  /\ (SingleDone /\ StatusError(outcomes[1])) =>
       Includes(DeliveredText, <<ToString(outcomes[1].upload.status)>>)
  /\ (verdict = "accepted" /\ req.name \in BatchTools) =>
       \A i \in 1..Len(results) :
         StatusError(outcomes[i]) =>
           Includes(ToText(results[i].error), <<ToString(outcomes[i].upload.status)>>)

\* C10: every response with status >= 400, 4xx and 5xx alike, is delivered
\* by the HTTP client as a response and handled by the status branch, never
\* by the transport-failure branch.
C10_StatusErrorsTakeTheStatusBranch ==
  /\ (SingleDone /\ StatusError(outcomes[1])) =>
       /\ AxiosResolves(outcomes[1].upload)
       /\ ~ Includes(DeliveredText, <<"Request failed with status code ">>)
  /\ (verdict = "accepted" /\ req.name \in BatchTools) =>
       \A i \in 1..Len(results) :
         StatusError(outcomes[i]) =>
           /\ AxiosResolves(outcomes[i].upload)
           /\ ~ Includes(ToText(results[i].error), <<"Request failed with status code ">>)

\* C11: a single call whose request gets no response at all fails with the
\* message 'Failed to communicate with Vectra API during <tool>'; no status
\* error carries that text, and a status error raised inside handleApiCall
\* leaves it unchanged.
C11_TransportFailuresAreDistinct ==
  /\ (SingleDone /\ outcomes[1].upload.kind = "noresponse") =>
       Includes(DeliveredText, <<"Failed to communicate with Vectra API during ", req.name>>)
  /\ (SingleDone /\ StatusError(outcomes[1])) =>
       ~ Includes(DeliveredText, <<"Failed to communicate with Vectra API during ">>)
  /\ (SingleDone /\ StatusError(outcomes[1]) /\ AxiosResolves(outcomes[1].upload)) =>
       /\ settled.state = "rejected"
       /\ settled.error = McpError(InternalError, StatusErrorMessage(outcomes[1].upload))

\* a response whose status lets the single call succeed
SuccessResponse(o) == o.upload.kind = "response" /\ o.upload.status < 400

\* C12: every successful delete_file call returns the fixed text
\* 'File deleted successfully.', whatever the success status and the body;
\* the body is never rendered.
C12_DeleteGivesFixedMessage ==
  (SingleDone /\ req.name = "delete_file" /\ SuccessResponse(outcomes[1])) =>
    settled = Fulfilled(TextContent(Str(<<"File deleted successfully.">>)))

C12_Witness ==
  /\ SingleDone
  /\ req.name = "delete_file"
  /\ outcomes[1].upload.status = 204
  /\ outcomes[1].upload.data = Str(<<>>)
  /\ DeliveredText = <<"File deleted successfully.">>

\* ------------------------------------------------------------------------
\* formatResponse on its own: applied to the body of a successful response
\* of each known tool
\* ------------------------------------------------------------------------
\* the tool names formatResponse has a case for
FormatNames == ToolNames \cup {"get_arangodb_node"}

\* JSON-serializable payloads, well and badly shaped
FormatPayloads ==
  { Null, Str(<<>>), S("x"), Num(1), Bool(TRUE), EmptyObj,
    Arr(<<>>), Arr(<<Null>>), Arr(<<Num(1)>>), Arr(<<EmptyObj>>),
    Arr(<<Obj([id |-> S("c1"), name |-> S("Docs")])>>),
    Arr(<<Obj([vector_id |-> S("v1"), distance |-> Num(1), score |-> Num(2),
               metadata |-> Obj([chunk_text |-> S("t")])])>>),
    Arr(<<Obj([vector_id |-> S("v1"), distance |-> S("near")])>>),
    Arr(<<Obj([synthesized_answer |-> S("a"), metadata |-> Num(3)])>>),
    Obj([id |-> S("c1"), name |-> S("Docs")]),
    Obj([id |-> Num(7), name |-> Arr(<<>>)]),
    Obj([message |-> S("added")]),
    Obj([message |-> Num(5)]),
    Obj([message |-> Obj([code |-> Num(1)])]),
    Obj([data |-> Null]),
    Obj([data |-> Obj([collections |-> Arr(<<Null>>)])]),
    Obj([data |-> Obj([collections |-> Arr(<<Obj([id |-> S("c1"), name |-> S("Docs")])>>)])]),
    Obj([data |-> Obj([files |-> Arr(<<>>)])]),
    Obj([data |-> Obj([files |-> Arr(<<Null>>)])]),
    Obj([data |-> Obj([files |-> Arr(<<Obj([filename |-> S("a.txt"), id |-> S("f1")])>>)])]),
    Obj([data |-> Obj([files |-> S("none")])]) }

InitF ==
  /\ pc = "formatting"
  /\ \E name \in FormatNames : req = [name |-> name, args |-> Undef]
  /\ \E body \in FormatPayloads :
       outcomes = <<[read |-> "none", upload |-> HttpResponse(200, StatusText(200), body)]>>
  /\ verdict = "none"
  /\ idx = 0
  /\ content = Null
  /\ results = <<>>
  /\ successCount = 0
  /\ errorCount = 0
  /\ inflight = {}
  /\ httpLog = <<>>
  /\ reads = <<>>
  /\ settled = NoPromise
  /\ toolsAnswer = <<>>
  /\ \E url \in EnvApiUrls :
       /\ env = Env(url, VECTRA_API_KEY)
       /\ axiosInstance = AxiosCreate(VECTRA_API_URL(url), VECTRA_API_KEY)

\* return formatResponse(toolName, response.data)
Format ==
  /\ pc = "formatting"
  /\ settled' = Fulfilled(formatResponse(req.name, outcomes[1].upload.data))
  /\ pc' = "formatted"
  /\ UNCHANGED << req, verdict, idx, content, results, successCount, errorCount, inflight,
                  httpLog, reads, outcomes, toolsAnswer, axiosInstance, env >>

NextF == Format

SpecF == InitF /\ [][NextF]_vars

\* C13: for every known tool name and every JSON-serializable payload,
\* formatResponse returns exactly one content element of type 'text' whose
\* text is a non-empty string.
C13_FormatResponseTotal ==
  pc = "formatted" =>
    /\ settled.state = "fulfilled"
    /\ Len(settled.value.content) = 1
    /\ settled.value.content[1].type = "text"
    /\ settled.value.content[1].text.t = "string"
    /\ TextLen(settled.value.content[1].text.s) > 0

\* the text prefixes the other
StartsWith(text, prefix) ==
  Len(text) >= Len(prefix) /\ \A j \in 1..Len(prefix) : text[j] = prefix[j]

\* C14: in embed_files a source whose read fails is recorded as that item's
\* failure with the message 'Failed to read file "<source>": ...', no upload
\* request is issued for it, and the next source is processed; the summary
\* lists it under the failed sources.
C14_ReadFailureIsItemFailure ==
  (verdict = "accepted" /\ req.name = "embed_files") =>
    \A i \in 1..Len(outcomes) :
      outcomes[i].read = "fail" =>
        /\ results[i].sourceDesc = BatchInput[i]
        /\ results[i].fileId = Undef
        /\ StartsWith(ToText(results[i].error),
                      <<"Failed to read file \"">> \o BatchInput[i].s \o <<"\": ">>)
        /\ \A k \in 1..Len(httpLog) : httpLog[k].item # i
        /\ i < ItemCount => Len(reads) > i /\ reads[i + 1] = BatchInput[i + 1]
        /\ Done =>
             /\ Len(results) = ItemCount
             /\ Includes(DeliveredText, <<"\nFailed sources: ">>)
             /\ Includes(DeliveredText,
                         BatchInput[i].s \o <<" (">> \o ToText(results[i].error) \o <<")">>)

C14_Witness ==
  /\ BatchDone
  /\ req.args = Obj([sources |-> Arr(<<S("a.txt"), S("missing.txt")>>)])
  /\ outcomes[1].read = "ok" /\ outcomes[1].upload.status = 200
  /\ outcomes[2].read = "fail"
  /\ Len(httpLog) = 1
  /\ StartsWith(DeliveredText, <<"Batch embed files completed. ", "1", " sources succeeded, ",
                                 "1", " sources failed.">>)
  /\ Includes(DeliveredText, <<"\nFailed sources: ", "missing.txt", " (",
                               "Failed to read file \"", "missing.txt", "\": ">>)

\* C15: query_collection always sends searchMode = 'hybrid' and
\* enableGraphSearch = true to the backend, whatever the caller supplied.
C15_QueryForcesHybridGraphSearch ==
  (verdict = "accepted" /\ req.name = "query_collection") =>
    /\ Len(httpLog) = 1
    /\ httpLog[1].method = "post"
    /\ httpLog[1].url = <<"/query">>
    /\ Get(httpLog[1].data, "searchMode") = Str(<<"hybrid">>)
    /\ Get(httpLog[1].data, "enableGraphSearch") = Bool(TRUE)

C15_Witness ==
  /\ verdict = "accepted"
  /\ req.name = "query_collection"
  /\ Get(req.args, "searchMode") = S("keyword")
  /\ Get(req.args, "enableGraphSearch") = Bool(FALSE)
  /\ Get(httpLog[1].data, "searchMode") = Str(<<"hybrid">>)
  /\ Get(httpLog[1].data, "enableGraphSearch") = Bool(TRUE)

\* ------------------------------------------------------------------------
\* Several invocations at once.  The handler is an async function: at each
\* await it returns to the event loop, and nothing in it keeps the server
\* from calling it for the next incoming request meanwhile.  Every variable
\* of an invocation is here a function of the invocation; httpLog, reads and
\* inflight are the shared client's, their entries tagged with the invocation.
\* ------------------------------------------------------------------------
\* the number of requests a client sends without waiting for the answers
MaxInvocations == 2

Invocations == 1..MaxInvocations

\* the requests the client sends
ConcurrentCalls ==
  { [name |-> "list_collections", args |-> EmptyObj],
    [name |-> "delete_file", args |-> Undef],
    [name |-> "embed_texts",
     args |-> Obj([items |-> Arr(<<Obj([text |-> S("alpha")]), Obj([text |-> S("beta")])>>)])],
    [name |-> "embed_files", args |-> Obj([sources |-> Arr(<<S("a.txt")>>)])] }

\* what the backend does with a request
ConcurrentOutcomes ==
  { HttpResponse(200, StatusText(200), Obj([data |-> Obj([id |-> Str(<<"a", "1", "-", "f">>)])])),
    NoResponse(<<"Network Error">>) }

InitC ==
  /\ pc = [i \in Invocations |-> "awaiting"]
  /\ req = [i \in Invocations |-> NoRequest]
  /\ verdict = [i \in Invocations |-> "none"]
  /\ idx = [i \in Invocations |-> 0]
  /\ content = [i \in Invocations |-> Null]
  /\ results = [i \in Invocations |-> <<>>]
  /\ successCount = [i \in Invocations |-> 0]
  /\ errorCount = [i \in Invocations |-> 0]
  /\ outcomes = [i \in Invocations |-> <<>>]
  /\ settled = [i \in Invocations |-> NoPromise]
  /\ inflight = {}
  /\ httpLog = <<>>
  /\ reads = <<>>
  /\ toolsAnswer = <<>>
  /\ \E url \in EnvApiUrls :
       /\ env = Env(url, VECTRA_API_KEY)
       /\ axiosInstance = AxiosCreate(VECTRA_API_URL(url), VECTRA_API_KEY)

\* an entry of the shared logs
Tagged(i, entry) == [inv |-> i, entry |-> entry]

\* invocation i of handleEmbedTexts at the top of its loop
TextsLoopC(i, args, newResults, sc, ec) ==
  LET items == Get(args, "items").e
      issued == LoopIssues(Len(newResults), Len(items))
      n == Len(newResults) + 1
  IN /\ results' = [results EXCEPT ![i] = newResults]
     /\ successCount' = [successCount EXCEPT ![i] = sc]
     /\ errorCount' = [errorCount EXCEPT ![i] = ec]
     /\ IF issued # {}
        THEN /\ pc' = [pc EXCEPT ![i] = "texts_wait"]
             /\ idx' = [idx EXCEPT ![i] = n]
             /\ inflight' = {op \in inflight : op.inv # i}
                              \cup {Tagged(i, op) : op \in IoOps("http", issued)}
             /\ httpLog' = Append(httpLog,
                  Tagged(i, UploadRequest(n, Get(items[n], "text"), PlaceholderUrl,
                                          Get(args, "collectionId"),
                                          Get(items[n], "metadata"))))
             /\ settled' = [settled EXCEPT ![i] = Pending]
        ELSE /\ pc' = [pc EXCEPT ![i] = "responding"]
             /\ idx' = [idx EXCEPT ![i] = 0]
             /\ inflight' = {op \in inflight : op.inv # i}
             /\ httpLog' = httpLog
             /\ settled' = [settled EXCEPT ![i] =
                              RouterReturn(Fulfilled(TextsSummary(newResults, sc, ec)))]

\* invocation i of handleEmbedFiles at the top of its loop
FilesLoopC(i, args, newResults) ==
  LET sources == Get(args, "sources").e
      issued == LoopIssues(Len(newResults), Len(sources))
      n == Len(newResults) + 1
  IN /\ results' = [results EXCEPT ![i] = newResults]
     /\ content' = [content EXCEPT ![i] = Null]
     /\ IF issued # {}
        THEN /\ pc' = [pc EXCEPT ![i] = "files_read"]
             /\ idx' = [idx EXCEPT ![i] = n]
             /\ inflight' = {op \in inflight : op.inv # i}
                              \cup {Tagged(i, op) : op \in IoOps("read", issued)}
             /\ reads' = Append(reads, Tagged(i, sources[n]))
             /\ settled' = [settled EXCEPT ![i] = Pending]
             /\ UNCHANGED << successCount, errorCount >>
        ELSE /\ pc' = [pc EXCEPT ![i] = "responding"]
             /\ idx' = [idx EXCEPT ![i] = 0]
             /\ inflight' = {op \in inflight : op.inv # i}
             /\ reads' = reads
             /\ successCount' = [successCount EXCEPT ![i] = FilesSuccessCount(newResults)]
             /\ errorCount' = [errorCount EXCEPT ![i] = FilesErrorCount(newResults)]
             /\ settled' = [settled EXCEPT ![i] =
                              RouterReturn(Fulfilled(FilesSummary(newResults)))]

\* the CallTool handler is called for a request, other invocations being
\* suspended or not
ReceiveC(i, call) ==
  /\ pc[i] = "awaiting"
  /\ req[i] = NoRequest
  /\ req' = [req EXCEPT ![i] = call]
  /\ UNCHANGED << outcomes, toolsAnswer, axiosInstance, env >>
  /\ IF call.name \notin RouterCases \/ ~ Validator(call.name, call.args)
     THEN /\ verdict' = [verdict EXCEPT ![i] =
                           IF call.name \in RouterCases THEN "rejected" ELSE "none"]
          /\ settled' = [settled EXCEPT ![i] =
               IF call.name \in RouterCases
               THEN RouterCatch(McpError(InvalidParams, InvalidArgumentsMessage(call.name)))
               ELSE RouterCatch(McpError(MethodNotFound, <<"Unknown tool: ", call.name>>))]
          /\ pc' = [pc EXCEPT ![i] = "responding"]
          /\ UNCHANGED << idx, content, results, successCount, errorCount, inflight, httpLog,
                          reads >>
     ELSE /\ verdict' = [verdict EXCEPT ![i] = "accepted"]
          /\ CASE call.name = "embed_texts" ->
                    /\ TextsLoopC(i, call.args, <<>>, 0, 0)
                    /\ UNCHANGED << content, reads >>
               [] call.name = "embed_files" ->
                    /\ FilesLoopC(i, call.args, <<>>)
                    /\ UNCHANGED httpLog
               [] OTHER ->
                    /\ pc' = [pc EXCEPT ![i] = "api_wait"]
                    /\ inflight' = inflight \cup {Tagged(i, op) : op \in IoOps("http", {0})}
                    /\ httpLog' = Append(httpLog, Tagged(i, ApiRequest(call.name, call.args)))
                    /\ settled' = [settled EXCEPT ![i] = Pending]
                    /\ UNCHANGED << idx, content, results, successCount, errorCount, reads >>

\* invocation i of handleApiCall resumes
ApiSettleC(i, out) ==
  /\ pc[i] = "api_wait"
  /\ outcomes' = [outcomes EXCEPT ![i] = <<[read |-> "none", upload |-> out]>>]
  /\ settled' = [settled EXCEPT ![i] =
       RouterReturn(handleApiCall(out, ApiCallOf(req[i].name, req[i].args).method, req[i].name))]
  /\ pc' = [pc EXCEPT ![i] = "responding"]
  /\ inflight' = {op \in inflight : op.inv # i}
  /\ UNCHANGED << req, verdict, idx, content, results, successCount, errorCount, httpLog,
                  reads, toolsAnswer, axiosInstance, env >>

\* invocation i of handleEmbedTexts resumes
TextsUploadSettleC(i, out) ==
  /\ pc[i] = "texts_wait"
  /\ LET item == Get(req[i].args, "items").e[idx[i]]
         promise == handleEmbedFileContent(out, PlaceholderUrl, Get(item, "metadata"))
         entry == UploadEntry(TextSourceDesc(item, results[i]), promise)
         ok == promise.state = "fulfilled"
     IN TextsLoopC(i, req[i].args, Append(results[i], entry),
                   IF ok THEN successCount[i] + 1 ELSE successCount[i],
                   IF ok THEN errorCount[i] ELSE errorCount[i] + 1)
  /\ outcomes' = [outcomes EXCEPT ![i] = Append(@, [read |-> "none", upload |-> out])]
  /\ UNCHANGED << req, verdict, content, reads, toolsAnswer, axiosInstance, env >>

\* invocation i of handleEmbedFiles resumes after its read
FilesReadSettleC(i, r) ==
  /\ pc[i] = "files_read"
  /\ LET source == Get(req[i].args, "sources").e[idx[i]]
     IN IF r.ok /\ r.content # Null
        THEN /\ content' = [content EXCEPT ![i] = r.content]
             /\ pc' = [pc EXCEPT ![i] = "files_upload"]
             /\ inflight' = {op \in inflight : op.inv # i}
                              \cup {Tagged(i, op) : op \in IoOps("http", {idx[i]})}
             /\ httpLog' = Append(httpLog,
                  Tagged(i, UploadRequest(idx[i], r.content, source.s,
                                          Get(req[i].args, "collectionId"),
                                          ItemMetadata(Get(req[i].args, "metadata"), source))))
             /\ UNCHANGED << idx, results, successCount, errorCount, reads, outcomes, settled >>
        ELSE /\ FilesLoopC(i, req[i].args, Append(results[i], ReadErrorEntry(source, r.message)))
             /\ outcomes' = [outcomes EXCEPT ![i] = Append(@, [read |-> "fail", upload |-> NotSent])]
             /\ UNCHANGED httpLog
  /\ UNCHANGED << req, verdict, toolsAnswer, axiosInstance, env >>

\* invocation i of handleEmbedFiles resumes after its upload
FilesUploadSettleC(i, out) ==
  /\ pc[i] = "files_upload"
  /\ LET source == Get(req[i].args, "sources").e[idx[i]]
         promise == handleEmbedFileContent(out, source.s,
                                           ItemMetadata(Get(req[i].args, "metadata"), source))
     IN FilesLoopC(i, req[i].args, Append(results[i], UploadEntry(source, promise)))
  /\ outcomes' = [outcomes EXCEPT ![i] = Append(@, [read |-> "ok", upload |-> out])]
  /\ UNCHANGED << req, verdict, httpLog, toolsAnswer, axiosInstance, env >>

\* the answer of invocation i is sent
RespondC(i) ==
  /\ pc[i] = "responding"
  /\ pc' = [pc EXCEPT ![i] = "answered"]
  /\ UNCHANGED << req, verdict, idx, content, results, successCount, errorCount, inflight,
                  httpLog, reads, outcomes, settled, toolsAnswer, axiosInstance, env >>

NextC ==
  \/ \E i \in Invocations : \E call \in ConcurrentCalls : ReceiveC(i, call)
  \/ \E i \in Invocations : \E out \in ConcurrentOutcomes : ApiSettleC(i, out)
  \/ \E i \in Invocations : \E out \in ConcurrentOutcomes : TextsUploadSettleC(i, out)
  \/ \E i \in Invocations : \E r \in ReadOutcomes : FilesReadSettleC(i, r)
  \/ \E i \in Invocations : \E out \in ConcurrentOutcomes : FilesUploadSettleC(i, out)
  \/ \E i \in Invocations : RespondC(i)

SpecC == InitC /\ [][NextC]_vars

\* invocation i is being handled: its handler has started and is suspended at
\* one of its awaits
Handling(i) == pc[i] \in {"api_wait", "texts_wait", "files_read", "files_upload"}

\* C16: a request is handled to completion before the next is considered:
\* never are two invocations being handled at once, and the HTTP calls of
\* two invocations never interleave.
C16_OneRequestAtATime ==
  /\ Cardinality({i \in Invocations : Handling(i)}) <= 1
  /\ \A a, b, c \in 1..Len(httpLog) :
       (a < b /\ b < c /\ httpLog[a].inv = httpLog[c].inv) => httpLog[b].inv = httpLog[a].inv

IsFailureEntry(r) == Truthy(r.error)

\* the counts the summary reports, as its second and fourth pieces
ReportedSucceeded == DeliveredText[2]

ReportedFailed == DeliveredText[4]

\* C18: each item of a batch is counted exactly once: after i items have
\* been processed the results hold exactly i entries, the entry of an item is
\* a failure exactly when the item failed and never carries both a file id
\* and an error, and the two counts together make up the number of items.
C18_EachItemCountedOnce ==
  (verdict = "accepted" /\ req.name \in BatchTools) =>
    /\ Len(results) = Len(outcomes)
    /\ pc \in {"texts_wait", "files_read", "files_upload"} =>
         /\ Len(results) = idx - 1
         /\ idx <= ItemCount
    /\ \A i \in 1..Len(results) :
         /\ IsFailureEntry(results[i]) <=> ItemFailed(outcomes[i])
         /\ ~ (IsFailureEntry(results[i]) /\ Truthy(results[i].fileId))
    /\ req.name = "embed_texts" =>
         /\ successCount + errorCount = Len(results)
         /\ errorCount = Cardinality({i \in 1..Len(results) : IsFailureEntry(results[i])})
    /\ Done =>
         /\ Len(results) = ItemCount
         /\ \E s, f \in 0..ItemCount :
              /\ ReportedSucceeded = ToString(s)
              /\ ReportedFailed = ToString(f)
              /\ s + f = ItemCount
              /\ f = Cardinality({i \in 1..Len(results) : IsFailureEntry(results[i])})

\* a batch of two sources is done: one upload succeeded without a usable
\* file id, the other source could not be read
C18_Witness ==
  /\ BatchDone
  /\ req.name = "embed_files"
  /\ ItemCount = 2
  /\ Len(results) = 2
  /\ ~ ItemFailed(outcomes[1]) /\ results[1].fileId = Undef
  /\ outcomes[2].read = "fail"
  /\ ReportedSucceeded = "1" /\ ReportedFailed = "1"

\* the batch invocation at hand has come to its end
BatchInvocationDone == Done /\ req.name \in BatchTools

\* C19: a batch call whose arguments its validator accepts returns its
\* summary whatever subset of the items failed: the promise is fulfilled,
\* never rejected, and the envelope carries no error flag; a batch
\* invocation ends in an error response only when its arguments were
\* rejected.
C19_AcceptedBatchNeverThrows ==
  BatchInvocationDone =>
    /\ Validator(req.name, req.args) =>
         /\ settled.state = "fulfilled"
         /\ ~ settled.value.isError
         /\ DeliveredText[1] \in {"Batch embed completed. ", "Batch embed files completed. "}
         /\ Len(outcomes) = ItemCount
    /\ (settled.state = "rejected" \/ settled.value.isError) =>
         /\ ~ Validator(req.name, req.args)
         /\ verdict = "rejected"
         /\ httpLog = <<>> /\ reads = <<>>

\* a batch of two texts is done and both uploads failed, one with a status
\* error and one without any response
C19_Witness ==
  /\ BatchInvocationDone
  /\ req.name = "embed_texts"
  /\ verdict = "accepted"
  /\ ItemCount = 2
  /\ FailedItems = {1, 2}
  /\ outcomes[1].upload.kind = "response"
  /\ outcomes[2].upload.kind = "noresponse"
  /\ settled.state = "fulfilled"

\* the fields of a query the narrowed shape names
QueryCallerFields ==
  { "collectionId", "queryText", "limit", "searchMode", "maxDistance",
    "includeMetadataFilters", "excludeMetadataFilters" }

\* what the router hands to handleApiCall for the accepted single call at hand
Handed == ApiCallOf(req.name, req.args)

\* C20: for every input its validator accepts, every field the caller
\* supplied is preserved in what the router hands on: each field of a query
\* keeps the caller's value in the payload, a new collection's fields and a
\* file id are handed on as given, and an id that selects the resource is
\* part of the endpoint.
C20_CallerFieldsPreserved ==
  (verdict = "accepted" /\ req.name \in SingleCallTools) =>
    /\ Validator(req.name, req.args)
    /\ req.name = "query_collection" =>
         \A f \in QueryCallerFields : Get(Handed.data, f) = Get(req.args, f)
    /\ req.name = "create_collection" => Handed.data = req.args
    /\ req.name = "add_file_to_collection" =>
         /\ Get(Handed.data, "fileId") = Get(req.args, "fileId")
         /\ Includes(Handed.endpoint, ToText(Get(req.args, "collectionId")))
    /\ req.name = "list_files_in_collection" =>
         Includes(Handed.endpoint, ToText(Get(req.args, "collectionId")))
    /\ req.name = "delete_file" =>
         Includes(Handed.endpoint, ToText(Get(req.args, "fileId")))

\* a present, string-valued property
IsStringField(v, k) == v.t = "object" /\ k \in DOMAIN v.f /\ v.f[k].t = "string"

\* a present property, of whatever value
IsPresent(v, k) == v.t = "object" /\ k \in DOMAIN v.f /\ v.f[k] # Undef

\* an element a filter list of the kind k may hold
GoodFilter(k, filter) ==
  /\ filter.t = "object"
  /\ IsStringField(filter, "field")
  /\ IF k = "includeMetadataFilters"
     THEN IsStringField(filter, "value")
     ELSE /\ IsPresent(filter, "value") \/ IsPresent(filter, "pattern")
          /\ IsPresent(filter, "value") => IsStringField(filter, "value")
          /\ IsPresent(filter, "pattern") => IsStringField(filter, "pattern")

\* the query at hand is the valid query with its filter argument k replaced
OnlyFilterVaries(k) ==
  /\ req.name = "query_collection"
  /\ req.args.t = "object"
  /\ k \in DOMAIN req.args.f
  /\ req.args.f[k] # Undef
  /\ WithField(req.args, k, BaseArgs("query_collection").f[k]) = BaseArgs("query_collection")

\* C21: isValidQueryCollectionArgs accepts a filter list exactly when it is
\* an array whose every element is a non-null object with a string field
\* and, for includeMetadataFilters, a string value, or, for
\* excludeMetadataFilters, a value or a pattern, every present one a string;
\* one bad element anywhere in the list invalidates the whole argument.
C21_FilterListsChecked ==
  \A k \in FilterFields :
    (pc = "validated" /\ OnlyFilterVaries(k)) =>
      ( verdict = "accepted" <=>
          /\ req.args.f[k].t = "array"
          /\ \A i \in 1..Len(req.args.f[k].e) : GoodFilter(k, req.args.f[k].e[i]) )

\* an exclude list whose first element is good (a pattern only) and whose
\* second is bad (its value is null) has been rejected
C21_Witness ==
  /\ pc = "validated"
  /\ OnlyFilterVaries("excludeMetadataFilters")
  /\ req.args.f["excludeMetadataFilters"] =
       Arr(<<Obj([field |-> S("f"), pattern |-> S("p")]),
             Obj([field |-> S("f"), value |-> Null, pattern |-> S("p")])>>)
  /\ verdict = "rejected"

\* ------------------------------------------------------------------------
\* Startup: the process from its start, through the constructor, into the
\* request loop
\* ------------------------------------------------------------------------
\* the values of the VECTRA_API_KEY environment variable considered
EnvApiKeys == {Undef, Str(<<>>), VECTRA_API_KEY}

\* the client before the constructor has built it
NoClient == AxiosCreate(Undef, Undef)

InitS ==
  /\ pc = "starting"
  /\ \E url \in EnvApiUrls : \E key \in EnvApiKeys : env = Env(url, key)
  /\ axiosInstance = NoClient
  /\ req = NoRequest
  /\ verdict = "none"
  /\ idx = 0
  /\ content = Null
  /\ results = <<>>
  /\ successCount = 0
  /\ errorCount = 0
  /\ inflight = {}
  /\ httpLog = <<>>
  /\ reads = <<>>
  /\ outcomes = <<>>
  /\ settled = NoPromise
  /\ toolsAnswer = <<>>

\* new VectraMcpServer() followed by run(): the process exits when the
\* credential is missing, otherwise the client is built and the server
\* connects to its transport
Construct ==
  /\ pc = "starting"
  /\ IF ApiKeyMissing(env.VECTRA_API_KEY)
     THEN /\ pc' = "exited"
          /\ UNCHANGED axiosInstance
     ELSE /\ axiosInstance' = AxiosCreate(VECTRA_API_URL(env.VECTRA_API_URL), env.VECTRA_API_KEY)
          /\ pc' = "awaiting"
  /\ UNCHANGED << req, verdict, idx, content, results, successCount, errorCount, inflight,
                  httpLog, reads, outcomes, settled, toolsAnswer, env >>

NextS == Construct \/ Next

SpecS == InitS /\ [][NextS]_vars

\* C22: when the credential is not set in the environment the server never
\* comes to await a request: no tool-list query is answered, no invocation
\* is received and no HTTP request or file read is issued; every request
\* that is issued goes through a client that carries the credential of the
\* environment in its header.
C22_MissingCredentialIsFatal ==
  /\ env.VECTRA_API_KEY = Undef =>
       /\ pc \in {"starting", "exited"}
       /\ toolsAnswer = <<>>
       /\ req = NoRequest
       /\ httpLog = <<>> /\ reads = <<>> /\ inflight = {}
  /\ httpLog # <<>> =>
       /\ Truthy(axiosInstance.headers.XApiKey)
       /\ axiosInstance.headers.XApiKey = env.VECTRA_API_KEY

\* the process has exited in the constructor for want of the credential
C22_Witness ==
  /\ pc = "exited"
  /\ env.VECTRA_API_KEY = Undef
  /\ axiosInstance = NoClient

\* an accepted query has issued its request
QuerySent == verdict = "accepted" /\ req.name = "query_collection" /\ Len(httpLog) = 1

\* C23: the collectionId of every valid query reaches the backend in the
\* request that is sent, in its URL or in its body, and the same query for
\* another collection is sent as a different request.
C23_CollectionIdReachesBackend ==
  QuerySent =>
    /\ \/ Includes(httpLog[1].url, ToText(Get(req.args, "collectionId")))
       \/ Get(httpLog[1].data, "collectionId") = Get(req.args, "collectionId")
    /\ ApiRequest(req.name, WithField(req.args, "collectionId", S("another"))) # httpLog[1]

\* the optional arguments the input schema of query_collection declares
OptionalQueryArgs ==
  DOMAIN QueryCollectionArgsSchema.properties \ {"collectionId", "queryText"}

\* C24: every optional argument of a query that the schema declares and the
\* caller supplies is in the body of the request with the caller's value,
\* and one the caller did not supply is absent from the body.
C24_OptionalArgumentsReachBackend ==
  QuerySent =>
    \A f \in OptionalQueryArgs : Get(httpLog[1].data, f) = Get(req.args, f)

\* ------------------------------------------------------------------------
\* The upload step of a batch on its own: a batch of one item, suspended at
\* the upload of that item, resumed with the backend's answer
\* ------------------------------------------------------------------------
\* ids the backend assigns
IdSamples == {<<"a", "1", "-", "f">>, <<"0", "c">>, <<"Z", "9">>, <<"a", "1", "z", "2">>}

UploadIdOutcomes ==
  {HttpResponse(200, StatusText(200), Obj([data |-> Obj([id |-> Str(id)])])) : id \in IdSamples}
    \cup UploadOutcomes

\* batches of one item; some sources and metadata hold the text "File ID: "
UploadStepCalls ==
  { [name |-> "embed_files", args |-> Obj([sources |-> Arr(<<src>>)])] :
      src \in {S("a.txt"), Str(<<"/", "File ID: ", "b", "/", "x.txt">>)} }
  \cup
  { [name |-> "embed_files",
     args |-> Obj([sources |-> Arr(<<S("a.txt")>>),
                   metadata |-> Obj([title |-> Str(<<"File ID: ", "d">>)])])] }
  \cup
  { [name |-> "embed_texts", args |-> Obj([items |-> Arr(<<item>>)])] :
      item \in { Obj([text |-> S("alpha")]),
                 Obj([text |-> S("beta"),
                      metadata |-> Obj([file_path |-> Str(<<"/", "File ID: ", "c">>)])]) } }

InitU ==
  \E call \in UploadStepCalls :
    /\ req = call
    /\ verdict = "accepted"
    /\ idx = 1
    /\ results = <<>>
    /\ successCount = 0
    /\ errorCount = 0
    /\ inflight = IoOps("http", {1})
    /\ outcomes = <<>>
    /\ settled = Pending
    /\ toolsAnswer = <<>>
    /\ \E url \in EnvApiUrls :
         /\ env = Env(url, VECTRA_API_KEY)
         /\ axiosInstance = AxiosCreate(VECTRA_API_URL(url), VECTRA_API_KEY)
    /\ IF call.name = "embed_files"
       THEN LET source == Get(call.args, "sources").e[1]
            IN /\ pc = "files_upload"
               /\ content = S("read")
               /\ reads = <<source>>
               /\ httpLog = <<UploadRequest(1, S("read"), source.s, Get(call.args, "collectionId"),
                                            ItemMetadata(Get(call.args, "metadata"), source))>>
       ELSE LET item == Get(call.args, "items").e[1]
            IN /\ pc = "texts_wait"
               /\ content = Null
               /\ reads = <<>>
               /\ httpLog = <<UploadRequest(1, Get(item, "text"), PlaceholderUrl,
                                            Get(call.args, "collectionId"),
                                            Get(item, "metadata"))>>

NextU ==
  \/ \E out \in UploadIdOutcomes : TextsUploadSettle(out)
  \/ \E out \in UploadIdOutcomes : FilesUploadSettle(out)

SpecU == InitU /\ [][NextU]_vars

\* the id the backend returned for the upload of item i
BackendId(i) == GetOpt(GetOpt(outcomes[i].upload.data, "data"), "id")

\* C25: for every item whose upload succeeded with an id assigned by the
\* backend, the id recorded for the item, and listed under 'Successful File
\* IDs', is exactly that id, whatever the id is and whatever the item's
\* source path and metadata contain.
C25_RecordedIdIsBackendId ==
  BatchDone =>
    \A i \in 1..Len(results) :
      (~ ItemFailed(outcomes[i]) /\ Truthy(BackendId(i))) =>
        /\ results[i].fileId = BackendId(i)
        /\ Len(results) = 1 => Includes(DeliveredText, <<SuccessLabel>> \o ToText(BackendId(i)))

\* the requests sent for item i of the batch
RequestsOf(i) == {j \in 1..Len(httpLog) : httpLog[j].item = i}

\* C26: nothing is retried: a valid single call issues exactly one HTTP
\* request, and a batch issues at most one upload per item, exactly one for
\* each embed_texts item and for each embed_files source that could be
\* read, whether the request succeeds or fails.
C26_NoRetry ==
  /\ (verdict = "accepted" /\ req.name \in SingleCallTools) => Len(httpLog) = 1
  /\ (verdict = "accepted" /\ req.name \in BatchTools) =>
       /\ \A i \in 1..ItemCount : Cardinality(RequestsOf(i)) <= 1
       /\ Len(httpLog) <= ItemCount
       /\ Len(reads) <= ItemCount
  /\ (BatchDone /\ req.name = "embed_texts") =>
       \A i \in 1..ItemCount : Cardinality(RequestsOf(i)) = 1
  /\ (BatchDone /\ req.name = "embed_files") =>
       /\ Len(reads) = ItemCount
       /\ \A i \in 1..ItemCount :
            Cardinality(RequestsOf(i)) = (IF outcomes[i].read = "ok" THEN 1 ELSE 0)

\* a batch of two texts is done, both uploads failed, and two requests were
\* sent in all
C26_Witness ==
  /\ BatchDone
  /\ req.name = "embed_texts"
  /\ ItemCount = 2
  /\ FailedItems = {1, 2}
  /\ Len(httpLog) = 2
  /\ RequestsOf(1) = {1} /\ RequestsOf(2) = {2}

MaxLiveItems == 2

\* the invocations considered: single calls that are accepted, rejected and
\* unknown, and batches of up to MaxLiveItems items
LiveCalls ==
  { [name |-> "list_collections", args |-> EmptyObj],
    [name |-> "delete_file", args |-> Obj([fileId |-> S("f1")])],
    [name |-> "delete_file", args |-> Undef],
    [name |-> "no_such_tool", args |-> EmptyObj] }
  \cup
  { [name |-> "embed_texts", args |-> Obj([items |-> Arr(items)])] :
      items \in SeqsUpTo({Obj([text |-> S("alpha")]), Obj([text |-> S("beta")])}, MaxLiveItems) }
  \cup
  { [name |-> "embed_files", args |-> Obj([sources |-> Arr(sources)])] :
      sources \in SeqsUpTo({S("a.txt"), S("missing.txt")}, MaxLiveItems) \ {<<>>} }

\* what the backend does with a request: success, a status error, no answer
LiveOutcomes ==
  { HttpResponse(200, StatusText(200), Obj([data |-> Obj([id |-> Str(<<"a", "1", "-", "f">>)])])),
    HttpResponse(500, StatusText(500), Str(<<>>)),
    NoResponse(<<"Network Error">>) }

NextL ==
  \/ \E call \in LiveCalls : CallTool(call.name, call.args)
  \/ \E out \in LiveOutcomes : ApiSettle(out)
  \/ \E out \in LiveOutcomes : TextsUploadSettle(out)
  \/ \E r \in ReadOutcomes : FilesReadSettle(r)
  \/ \E out \in LiveOutcomes : FilesUploadSettle(out)
  \/ Respond

\* every request and read that was issued completes, and the transport takes
\* every settled promise; no request need ever arrive
IoCompletes ==
  /\ WF_vars(\E out \in LiveOutcomes : ApiSettle(out))
  /\ WF_vars(\E out \in LiveOutcomes : TextsUploadSettle(out))
  /\ WF_vars(\E r \in ReadOutcomes : FilesReadSettle(r))
  /\ WF_vars(\E out \in LiveOutcomes : FilesUploadSettle(out))
  /\ WF_vars(Respond)

SpecL == Init /\ [][NextL]_vars /\ IoCompletes

\* the invocation is suspended at an HTTP call or a file read
Suspended == pc \in {"api_wait", "texts_wait", "files_read", "files_upload"}

\* C28: provided every HTTP call and file read completes, every invocation
\* comes to its one response and the router comes back to await the next
\* request; a batch loop has then processed every item, and nothing is left
\* in flight.
C28_EveryInvocationResponds ==
  /\ Suspended ~> Done
  /\ Done ~> (pc = "awaiting")
  /\ [](Done => /\ settled.state \in {"fulfilled", "rejected"}
                /\ inflight = {})
  /\ [](BatchDone => Len(results) = ItemCount /\ Len(outcomes) = ItemCount)

\* a batch of two sources has come to its response after one failed read and
\* one failed upload
C28_Witness ==
  /\ BatchDone
  /\ req.name = "embed_files"
  /\ ItemCount = 2
  /\ outcomes[1].read = "fail"
  /\ outcomes[2].upload.kind = "noresponse"
  /\ settled.state = "fulfilled"

\* the keys of the caller's base metadata
BaseMetadataKeys ==
  IF Get(req.args, "metadata").t = "object" THEN DOMAIN Get(req.args, "metadata").f ELSE {}

\* the metadata sent with the j-th upload is the base metadata with
\* file_path set to the path of the source the upload is for, and holds the
\* path of no other source
OwnMetadata(j) ==
  LET sources == Get(req.args, "sources").e
      i == httpLog[j].item
      sent == Get(httpLog[j].data, "metadata")
  IN /\ sent.t = "object"
     /\ DOMAIN sent.f = BaseMetadataKeys \cup {"file_path"}
     /\ sent.f["file_path"] = sources[i]
     /\ \A k \in BaseMetadataKeys \ {"file_path"} : sent.f[k] = Get(req.args, "metadata").f[k]
     /\ \A i2 \in 1..Len(sources) : \A k \in DOMAIN sent.f :
          (sources[i2] # sources[i] /\ sent.f[k] = sources[i2]) => FALSE

\* C29: in embed_files the metadata uploaded for a source is the caller's
\* base metadata with file_path set to that source's own path, which
\* overrides a file_path of the base metadata; the call leaves the caller's
\* arguments as they were, and nothing written for one source shows in the
\* upload of another.
C29_ItemMetadataIsOwnCopy ==
  /\ []((verdict = "accepted" /\ req.name = "embed_files") =>
          \A j \in 1..Len(httpLog) : OwnMetadata(j))
  /\ [][(pc \in {"files_read", "files_upload"}) => (req' = req)]_vars

\* two sources were uploaded under a base metadata that has a file_path of
\* its own
C29_Witness ==
  /\ BatchDone
  /\ req.name = "embed_files"
  /\ Get(Get(req.args, "metadata"), "file_path") = S("base")
  /\ Len(httpLog) = 2
  /\ Get(httpLog[1].data, "metadata").f["file_path"] = S("a.txt")
  /\ Get(httpLog[2].data, "metadata").f["file_path"] = Str(<<"/", "docs", "/", "b.md">>)

\* C30: list_collections is accepted and issues GET /collections when it
\* is invoked without arguments as well as with an empty object, and it is
\* rejected only when the caller supplies a value that is not an object.
C30_ListCollectionsNeedsNoArguments ==
  (Done /\ req.name = "list_collections") =>
    /\ req.args \in {Undef, EmptyObj} =>
         /\ verdict = "accepted"
         /\ Len(httpLog) = 1
         /\ httpLog[1].method = "get"
         /\ httpLog[1].url = <<"/collections">>
    /\ verdict = "rejected" => req.args.t \notin {"undefined", "object"}
====
